---- MODULE Spec2Model ----
(***************************************************************************)
(* PopGiftsApp backend: the card-generation workflow (OrchestrationAgent), *)
(* its prompt analysis, and the Google AI service (GoogleAIService).       *)
(*                                                                         *)
(* Conventions.  An optional value (a TypeScript `x?: T`, or a value that  *)
(* may be undefined) is a sequence of length at most one: None is <<>>,    *)
(* Some(x) is <<x>>.  Strings of which the code inspects the characters    *)
(* are sequences of one-character strings.                                 *)
(***************************************************************************)
EXTENDS Integers, Sequences, FiniteSets, TLC

VARIABLES req, ap, env, svc, call, gift, sms, reqs, instance

vars == <<req, ap, env, svc, call, gift, sms, reqs, instance>>

None == <<>>
Some(x) == <<x>>
IsSome(o) == o # <<>>
Val(o) == o[1]

(***************************************************************************)
(* Values a JavaScript `throw` (or a rejected promise) can carry.  The     *)
(* catch clauses of the code read `error.message`: an Error has one, any   *)
(* other non-nullish value (here a string) gives undefined, and reading a  *)
(* property of null or undefined raises a TypeError.                       *)
(***************************************************************************)
ErrorObject(m) == [kind |-> "Error", message |-> m]
ThrownString == [kind |-> "string", message |-> "oops"]
ThrownNull == [kind |-> "null", message |-> ""]
ThrownUndefined == [kind |-> "undefined", message |-> ""]
ThrownValues == {ErrorObject("upstream failure"), ThrownString, ThrownNull, ThrownUndefined}

IsNullish(e) == e.kind \in {"null", "undefined"}
\* error.message for a non-nullish thrown value: a string, or undefined.
MessageOf(e) == IF e.kind = "Error" THEN Some(e.message) ELSE None

(***************************************************************************)
(* Text returned by the remote model for analyzePrompt.  The text is a     *)
(* sequence of tokens: code-fence markers, newlines, blanks, prose, and    *)
(* one payload token standing for the characters of a JSON document (or of *)
(* something that is not JSON).                                            *)
(***************************************************************************)
JMissing == [p |-> "missing", s |-> "", n |-> 0, a |-> <<>>]
JNull == [p |-> "null", s |-> "", n |-> 0, a |-> <<>>]
JStr(s) == [p |-> "string", s |-> s, n |-> 0, a |-> <<>>]
JNum(n) == [p |-> "number", s |-> "", n |-> n, a |-> <<>>]
JArr(a) == [p |-> "array", s |-> "", n |-> 0, a |-> a]

\* JavaScript truthiness of a decoded JSON member (undefined when missing).
Truthy(j) ==
    CASE j.p = "missing" -> FALSE
      [] j.p = "null" -> FALSE
      [] j.p = "string" -> j.s # ""
      [] j.p = "number" -> j.n # 0
      [] j.p = "array" -> TRUE

NoFields ==
    [occasion |-> JMissing, recipient |-> JMissing, age |-> JMissing,
     interests |-> JMissing, tone |-> JMissing, illustrationStyle |-> JMissing]

JsonInvalid == [type |-> "invalid", fields |-> NoFields]
JsonNull == [type |-> "null", fields |-> NoFields]
JsonScalar == [type |-> "scalar", fields |-> NoFields]
JsonObject(f) == [type |-> "object", fields |-> f]

Tok(t) == [t |-> t, json |-> JsonInvalid]
FenceJson == Tok("fence_json")
Fence == Tok("fence")
NL == Tok("nl")
SP == Tok("sp")
Prose == Tok("prose")
Payload(j) == [t |-> "payload", json |-> j]

RECURSIVE RemoveFence(_, _)
\* text.replace(/<marker>\n?/g, empty): every marker goes, with the newline after it.
RemoveFence(text, marker) ==
    IF text = <<>> THEN <<>>
    ELSE IF Head(text) = marker
         THEN IF Len(text) >= 2 /\ text[2] = NL
              THEN RemoveFence(SubSeq(text, 3, Len(text)), marker)
              ELSE RemoveFence(Tail(text), marker)
         ELSE <<Head(text)>> \o RemoveFence(Tail(text), marker)

RECURSIVE TrimLeft(_, _)
TrimLeft(s, spaces) ==
    IF s # <<>> /\ Head(s) \in spaces THEN TrimLeft(Tail(s), spaces) ELSE s

RECURSIVE TrimRight(_, _)
TrimRight(s, spaces) ==
    IF s # <<>> /\ s[Len(s)] \in spaces
    THEN TrimRight(SubSeq(s, 1, Len(s) - 1), spaces)
    ELSE s

\* String.prototype.trim, on a sequence whose blank elements are `spaces`.
Trim(s, spaces) == TrimRight(TrimLeft(s, spaces), spaces)

\* A variant that forgets the bare fence markers.
StripFencesJsonOnly(text) == Trim(RemoveFence(text, FenceJson), {NL, SP})

\* The fence markers with json tag, then the bare fence markers, then trim().
StripFences(text) == Trim(RemoveFence(RemoveFence(text, FenceJson), Fence), {NL, SP})

\* JSON.parse: the document must be the whole of the remaining text.
JsonParses(jsonText) ==
    /\ Len(jsonText) = 1
    /\ jsonText[1].t = "payload"
    /\ jsonText[1].json.type # "invalid"

FallbackAnalysis ==
    [occasion |-> "celebration", recipient |-> None, age |-> None,
     interests |-> <<>>, tone |-> "celebratory", illustrationStyle |-> "cartoon"]

\* analysis.<member> || <default>
OrString(j, default) == IF Truthy(j) THEN j.s ELSE default
\* analysis.recipient || undefined
OrUndefinedString(j) == IF Truthy(j) THEN Some(j.s) ELSE None
\* analysis.age || undefined
OrUndefinedNumber(j) == IF Truthy(j) THEN Some(j.n) ELSE None

\* Lines 206-213: the decoded value with defaults.  Members of a non-object
\* decoded value (a number, a string) are all undefined.
ValidateAnalysis(json) ==
    LET f == json.fields
    IN [occasion |-> OrString(f.occasion, "celebration"),
        recipient |-> OrUndefinedString(f.recipient),
        age |-> OrUndefinedNumber(f.age),
        interests |-> IF f.interests.p = "array" THEN f.interests.a ELSE <<>>,
        tone |-> OrString(f.tone, "celebratory"),
        illustrationStyle |-> OrString(f.illustrationStyle, "cartoon")]

\* A settled model.generateContent call: it throws (also when response.text()
\* throws), or it yields a text.
ContentThrows(e) == [kind |-> "throws", err |-> e, text |-> <<>>]
ContentText(t) == [kind |-> "text", err |-> ThrownNull, text |-> t]

\* Lines 196-224: the try block of analyzePrompt and its catch.
analyzePromptResult(content) ==
    IF content.kind = "throws" THEN FallbackAnalysis
    ELSE LET jsonText == StripFences(content.text)
         IN IF ~JsonParses(jsonText) THEN FallbackAnalysis
            ELSE IF jsonText[1].json.type = "null" THEN FallbackAnalysis
            ELSE ValidateAnalysis(jsonText[1].json)

(***************************************************************************)
(* The agents the workflow calls.  Each is an interface whose result type  *)
(* is declared in types/card.ts; the shipped stubs return one value of     *)
(* that type, and the workflow handles every value of it.  A LayerTree is  *)
(* its main text and the list of stages that rewrote it.                   *)
(***************************************************************************)
LayerTree(text) == [text |-> text, marks |-> <<>>]
Mark(tree, stage) == [tree EXCEPT !.marks = Append(@, stage)]

Returns(v) == [kind |-> "returns", value |-> v]

\* IllustratorAgent.generateDesign: the stub.
generateDesign(request) ==
    LET layerTree == LayerTree(request.occasion)
    IN [success |-> TRUE, layerTree |-> Some(layerTree), variations |-> Some(<<layerTree>>)]

\* The values of IllustrationResult an illustrator can return.
IllustrationResults(request) ==
    LET stub == generateDesign(request)
    IN {stub,
        [stub EXCEPT !.variations = None],
        [stub EXCEPT !.success = FALSE],
        [stub EXCEPT !.layerTree = None, !.variations = None],
        [success |-> FALSE, layerTree |-> None, variations |-> None]}

\* EditorAgent.refineTextLayers: the stub.
refineTextLayers(layerTree) == [success |-> TRUE, layerTree |-> Some(layerTree)]

\* The values of EditResult an editor can return.
EditResults(layerTree) ==
    {refineTextLayers(layerTree),
     [success |-> TRUE, layerTree |-> Some(Mark(layerTree, "edited"))],
     [success |-> FALSE, layerTree |-> Some(Mark(layerTree, "edited"))],
     [success |-> FALSE, layerTree |-> None],
     [success |-> TRUE, layerTree |-> None]}

\* AnimatorAgent.addAnimations: the stub.
addAnimations(layerTree) == layerTree

AnimationResults(layerTree) == {addAnimations(layerTree), Mark(layerTree, "animated")}

\* GiftAgent.recommendGifts: the stub.
recommendGifts == [giftCards |-> <<>>, suggestedFriends |-> <<>>]

GiftResults == {recommendGifts, [giftCards |-> <<"starbucks">>, suggestedFriends |-> <<"ann">>]}

(***************************************************************************)
(* OrchestrationAgent.generateCard.  A request is the local `state` object *)
(* of one call, the await it is suspended at (pc), how its promise settled *)
(* (outcome), and two records kept for the properties only: the order of   *)
(* the assignments to currentStep and of the calls made (trace), and what  *)
(* each agent returned and what the catch block caught (got).              *)
(***************************************************************************)
Prompts == {"birthday card for Ann", "thanks"}
UserIds == {None, Some(""), Some("u1")}
StartTimes == {1, 2}

StepEvent(s) == [k |-> "step", v |-> s]
CallEvent(a) == [k |-> "call", v |-> a]

NothingGot == [illustrator |-> None, editor |-> None, animatorArg |-> None,
               animator |-> None, gift |-> None, caught |-> None]

\* Lines 88-94.
NewRequest(prompt, userId, now) ==
    [pc |-> "start",
     outcome |-> "pending",
     state |-> [prompt |-> prompt, userId |-> userId, analysis |-> None,
                layerTree |-> None, variations |-> None,
                giftRecommendations |-> None, suggestedFriends |-> None,
                currentStep |-> "start", errors |-> <<>>, startTime |-> now],
     trace |-> <<StepEvent("start")>>,
     got |-> NothingGot]

SetStep(r, s) ==
    [r EXCEPT !.state.currentStep = s, !.trace = Append(@, StepEvent(s))]

Invoke(r, agent) == [r EXCEPT !.trace = Append(@, CallEvent(agent))]

\* if (userId): undefined and the empty string are falsy.
HasUserId(userId) == IsSome(userId) /\ Val(userId) # ""

\* A variant of the catch block that does not record the message.
CatchWithoutMessage(r, error) ==
    LET r1 == [r EXCEPT !.got.caught = Some(error)]
    IN IF IsNullish(error)
       THEN [r1 EXCEPT !.pc = "done", !.outcome = "rejected"]
       ELSE [SetStep(r1, "failed") EXCEPT !.pc = "done", !.outcome = "fulfilled"]

\* A variant of the catch block that records the failure and lets the
\* pipeline go on.
CatchKeepsRunning(r, error) ==
    SetStep([r EXCEPT !.got.caught = Some(error),
                      !.state.errors = Append(@, MessageOf(error))], "failed")

\* Lines 162-168: the catch block, entered with the thrown value.  Reading
\* error.message of null or undefined throws inside the handler, and the
\* promise of generateCard is rejected.
Catch(r, error) ==
    LET r1 == [r EXCEPT !.got.caught = Some(error)]
    IN IF IsNullish(error)
       THEN [r1 EXCEPT !.pc = "done", !.outcome = "rejected"]
       ELSE [SetStep([r1 EXCEPT !.state.errors = Append(@, MessageOf(error))], "failed")
               EXCEPT !.pc = "done", !.outcome = "fulfilled"]

\* Lines 96-101 and 176-197: up to the await of model.generateContent.
\* getModel is the outcome of this.genAI.getGenerativeModel (line 177),
\* which is called before the try block of analyzePrompt.
BeginAnalysis(r, getModel) ==
    LET r1 == Invoke(SetStep(r, "analyzing"), "analyzePrompt")
    IN IF getModel.kind = "throws"
       THEN Catch(r1, getModel.err)
       ELSE [Invoke(r1, "generateContent") EXCEPT !.pc = "analyzing"]

IllustrationRequest(prompt, analysis) ==
    [freeformPrompt |-> prompt, occasion |-> analysis.occasion,
     recipientName |-> analysis.recipient, interests |-> analysis.interests,
     style |-> analysis.illustrationStyle]

\* Lines 197-224 and 101-112: generateContent settled; up to the await of
\* illustrator.generateDesign.
AfterAnalysis(r, content) ==
    LET analysis == analyzePromptResult(content)
        r1 == [r EXCEPT !.state.analysis = Some(analysis)]
    IN [Invoke(SetStep(r1, "illustrating"), "illustrator") EXCEPT !.pc = "illustrating"]

\* A variant that invokes the illustrator a second time when its first
\* answer is not usable.
AfterIllustrationRetries(r, settled) ==
    IF settled.kind = "throws" THEN Catch(r, settled.err)
    ELSE LET illustrationResult == settled.value
             r1 == [r EXCEPT !.got.illustrator = Some(illustrationResult)]
         IN IF ~illustrationResult.success \/ ~IsSome(illustrationResult.layerTree)
            THEN IF IsSome(r.got.illustrator)
                 THEN Catch(r1, ErrorObject("Illustration generation failed"))
                 ELSE Invoke(r1, "illustrator")
            ELSE LET r2 == [r1 EXCEPT
                              !.state.layerTree = illustrationResult.layerTree,
                              !.state.variations =
                                  IF IsSome(illustrationResult.variations)
                                  THEN illustrationResult.variations
                                  ELSE Some(<<>>)]
                 IN [Invoke(SetStep(r2, "editing"), "editor") EXCEPT !.pc = "editing"]

\* A variant that tests only the success flag of the illustrator.
AfterIllustrationIgnoresTree(r, settled) ==
    IF settled.kind = "throws" THEN Catch(r, settled.err)
    ELSE LET illustrationResult == settled.value
             r1 == [r EXCEPT !.got.illustrator = Some(illustrationResult)]
         IN IF ~illustrationResult.success
            THEN Catch(r1, ErrorObject("Illustration generation failed"))
            ELSE LET r2 == [r1 EXCEPT
                              !.state.layerTree = illustrationResult.layerTree,
                              !.state.variations =
                                  IF IsSome(illustrationResult.variations)
                                  THEN illustrationResult.variations
                                  ELSE Some(<<>>)]
                 IN [Invoke(SetStep(r2, "editing"), "editor") EXCEPT !.pc = "editing"]

\* Lines 114-127: the illustrator settled; up to the await of the editor.
AfterIllustration(r, settled) ==
    IF settled.kind = "throws" THEN Catch(r, settled.err)
    ELSE LET illustrationResult == settled.value
             r1 == [r EXCEPT !.got.illustrator = Some(illustrationResult)]
         IN IF ~illustrationResult.success \/ ~IsSome(illustrationResult.layerTree)
            THEN Catch(r1, ErrorObject("Illustration generation failed"))
            ELSE LET r2 == [r1 EXCEPT
                              !.state.layerTree = illustrationResult.layerTree,
                              !.state.variations =
                                  IF IsSome(illustrationResult.variations)
                                  THEN illustrationResult.variations
                                  ELSE Some(<<>>)]
                 IN [Invoke(SetStep(r2, "editing"), "editor") EXCEPT !.pc = "editing"]

\* A variant that starts the gift agent together with the animator.
AfterEditingCallsGiftFirst(r, settled) ==
    IF settled.kind = "throws" THEN Catch(r, settled.err)
    ELSE LET editResult == settled.value
             r1 == [r EXCEPT !.got.editor = Some(editResult)]
             r2 == IF editResult.success /\ IsSome(editResult.layerTree)
                   THEN [r1 EXCEPT !.state.layerTree = editResult.layerTree]
                   ELSE r1
             r3 == [r2 EXCEPT !.got.animatorArg = r2.state.layerTree]
             r4 == IF HasUserId(r.state.userId) THEN Invoke(r3, "giftAgent") ELSE r3
         IN [Invoke(SetStep(r4, "animating"), "animator") EXCEPT !.pc = "animating"]

\* A variant that takes the tree of the editor whatever its success flag.
AfterEditingIgnoresSuccess(r, settled) ==
    IF settled.kind = "throws" THEN Catch(r, settled.err)
    ELSE LET editResult == settled.value
             r1 == [r EXCEPT !.got.editor = Some(editResult)]
             r2 == IF IsSome(editResult.layerTree)
                   THEN [r1 EXCEPT !.state.layerTree = editResult.layerTree]
                   ELSE r1
             r3 == [r2 EXCEPT !.got.animatorArg = r2.state.layerTree]
         IN [Invoke(SetStep(r3, "animating"), "animator") EXCEPT !.pc = "animating"]

\* Lines 129-139: the editor settled; up to the await of the animator.
AfterEditing(r, settled) ==
    IF settled.kind = "throws" THEN Catch(r, settled.err)
    ELSE LET editResult == settled.value
             r1 == [r EXCEPT !.got.editor = Some(editResult)]
             r2 == IF editResult.success /\ IsSome(editResult.layerTree)
                   THEN [r1 EXCEPT !.state.layerTree = editResult.layerTree]
                   ELSE r1
             r3 == [r2 EXCEPT !.got.animatorArg = r2.state.layerTree]
         IN [Invoke(SetStep(r3, "animating"), "animator") EXCEPT !.pc = "animating"]

\* Lines 158-160 and 168.
Complete(r) == [SetStep(r, "complete") EXCEPT !.pc = "done", !.outcome = "fulfilled"]

\* Lines 141-150: the animator settled; up to the await of the gift agent,
\* or to the end when there is no userId.  Line 145 assigns the step label
\* before line 146 tests userId.
AfterAnimation(r, settled) ==
    IF settled.kind = "throws" THEN Catch(r, settled.err)
    ELSE LET animatedTree == settled.value
             r1 == [r EXCEPT !.got.animator = Some(animatedTree),
                             !.state.layerTree = Some(animatedTree)]
             r2 == SetStep(r1, "shopping")
         IN IF HasUserId(r.state.userId)
            THEN [Invoke(r2, "giftAgent") EXCEPT !.pc = "shopping"]
            ELSE Complete(r2)

\* Lines 152-160: the gift agent settled.
AfterShopping(r, settled) ==
    IF settled.kind = "throws" THEN Catch(r, settled.err)
    ELSE LET giftResult == settled.value
         IN Complete([r EXCEPT !.got.gift = Some(giftResult),
                               !.state.giftRecommendations = Some(giftResult.giftCards),
                               !.state.suggestedFriends = Some(giftResult.suggestedFriends)])

Throws(e) == [kind |-> "throws", err |-> e]
ModelObtained == [kind |-> "ok", err |-> ThrownNull]

\* What model.generateContent can settle with, in the workflow runs.
SampleFields ==
    [occasion |-> JStr("birthday"), recipient |-> JStr("Ann"), age |-> JNum(30),
     interests |-> JArr(<<"golf">>), tone |-> JStr("playful"),
     illustrationStyle |-> JStr("anime")]

SampleContents ==
    {ContentThrows(ErrorObject("upstream failure")),
     ContentText(<<Payload(JsonInvalid)>>),
     ContentText(<<FenceJson, NL, Payload(JsonObject(SampleFields)), NL, Fence>>),
     ContentText(<<Payload(JsonObject([SampleFields EXCEPT !.recipient = JNull,
                                                           !.tone = JMissing]))>>)}

(***************************************************************************)
(* GoogleAIService.  Texts of which the code inspects the characters are   *)
(* sequences of one-character strings; a string the code builds from a     *)
(* template is the name of the template with its arguments.                *)
(***************************************************************************)
Literal(chars) == [kind |-> "literal", chars |-> chars, args |-> <<>>]
Template(name, args) == [kind |-> name, chars |-> <<>>, args |-> args]

Digits == {"0", "1", "2", "3", "4", "5", "6", "7", "8", "9"}
Punctuation == {".", ")", ":"}
WhiteSpace == {" ", "\t", "\r", "\n"}

RECURSIVE Split(_, _)
\* text.split(sep)
Split(text, sep) ==
    IF \A i \in DOMAIN text : text[i] # sep THEN <<text>>
    ELSE LET i == CHOOSE k \in DOMAIN text :
                     text[k] = sep /\ \A j \in 1..(k - 1) : text[j] # sep
         IN <<SubSeq(text, 1, i - 1)>> \o Split(SubSeq(text, i + 1, Len(text)), sep)

RECURSIVE Leading(_, _)
\* The number of leading elements of s that are in the set.
Leading(s, set) ==
    IF s # <<>> /\ Head(s) \in set THEN 1 + Leading(Tail(s), set) ELSE 0

\* Length of the match of /^\d+[.):]/ in line, 0 when there is none.
NumberedPrefix(line) ==
    LET d == Leading(line, Digits)
    IN IF d >= 1 /\ Len(line) > d /\ line[d + 1] \in Punctuation THEN d + 1 ELSE 0

\* line.replace(/^\d+[.):]\s*/, empty)
StripNumbering(line) ==
    LET n == NumberedPrefix(line)
    IN IF n = 0 THEN line
       ELSE LET rest == SubSeq(line, n + 1, Len(line))
            IN SubSeq(rest, Leading(rest, WhiteSpace) + 1, Len(rest))

\* Array.prototype.slice(0, n)
SliceFirst(s, n) == SubSeq(s, 1, IF Len(s) < n THEN Len(s) ELSE n)

\* input.occasion.toLowerCase()
ToLowerCase(s) ==
    CASE s = "Birthday" -> "birthday"
      [] s = "Thank You" -> "thank you"
      [] OTHER -> s

\* getFallbackPrompts: three templates over the occasion and the interests.
getFallbackPrompts(input) ==
    LET args == <<ToLowerCase(input.occasion)>> \o input.interests
    IN <<Template("vibrant", args), Template("elegant", args), Template("playful", args)>>

\* A variant that fills up what was parsed with fallback prompts.
ParsePromptsTopUp(text, input) ==
    LET lines == Split(text, "\n")
        numbered == SelectSeq(lines, LAMBDA line : NumberedPrefix(Trim(line, WhiteSpace)) > 0)
        stripped == [i \in DOMAIN numbered |-> Trim(StripNumbering(numbered[i]), WhiteSpace)]
        prompts == SliceFirst(SelectSeq(stripped, LAMBDA line : Len(line) > 0), 3)
        fallback == getFallbackPrompts(input)
    IN [i \in 1..3 |-> IF i <= Len(prompts) THEN Literal(prompts[i]) ELSE fallback[i]]

\* Lines 844-857 of generateImagePrompts: the prompts parsed from the text.
ParsePrompts(text, input) ==
    LET lines == Split(text, "\n")
        numbered == SelectSeq(lines, LAMBDA line : NumberedPrefix(Trim(line, WhiteSpace)) > 0)
        stripped == [i \in DOMAIN numbered |-> Trim(StripNumbering(numbered[i]), WhiteSpace)]
        prompts == SliceFirst(SelectSeq(stripped, LAMBDA line : Len(line) > 0), 3)
    IN IF Len(prompts) < 3
       THEN getFallbackPrompts(input)
       ELSE [i \in DOMAIN prompts |-> Literal(prompts[i])]

\* createCardDesign: index, prompt and style of the design.
createCardDesign(prompt, index, input) ==
    [index |-> index, prompt_used |-> prompt,
     style |-> IF IsSome(input.style) /\ Val(input.style) # "" THEN Val(input.style) ELSE "modern"]

MadlibInput(name, occasion, interests, style) ==
    [recipient_name |-> name, occasion |-> occasion, interests |-> interests,
     age |-> None, style |-> style, message |-> None]

\* The input refineCardDesign hands to createCardDesign (lines 962-966).
EmptyMadlib == MadlibInput("", "", <<>>, None)

MadlibInputs ==
    {MadlibInput("Ann", "Birthday", <<"golf", "tea">>, None),
     MadlibInput("Bo", "thanks", <<"jazz">>, Some("retro"))}

\* The service before its first use (lines 754-757).
NewService == [genAI |-> FALSE, textModel |-> "", imageModel |-> "", initialized |-> FALSE]

\* process.env.<name> || <default>
EnvOr(value, default) == IF IsSome(value) /\ Val(value) # "" THEN Val(value) ELSE default

\* A variant of initialize that reads the environment at every call.
initializeEveryTime(service, environment) ==
    IF ~IsSome(environment.GOOGLE_AI_API_KEY) \/ Val(environment.GOOGLE_AI_API_KEY) = ""
    THEN [genAI |-> FALSE, textModel |-> "", imageModel |-> "", initialized |-> TRUE]
    ELSE [genAI |-> TRUE,
          textModel |-> EnvOr(environment.GOOGLE_TEXT_MODEL, "gemini-2.5-flash"),
          imageModel |-> EnvOr(environment.GOOGLE_IMAGE_MODEL, "imagen-3"),
          initialized |-> TRUE]

\* initialize (lines 759-781): latches the configuration at the first call.
initialize(service, environment) ==
    IF service.initialized THEN service
    ELSE IF ~IsSome(environment.GOOGLE_AI_API_KEY) \/ Val(environment.GOOGLE_AI_API_KEY) = ""
         THEN [genAI |-> FALSE, textModel |-> "", imageModel |-> "", initialized |-> TRUE]
         ELSE [genAI |-> TRUE,
               textModel |-> EnvOr(environment.GOOGLE_TEXT_MODEL, "gemini-2.5-flash"),
               imageModel |-> EnvOr(environment.GOOGLE_IMAGE_MODEL, "imagen-3"),
               initialized |-> TRUE]

NotInitializedError == ErrorObject("Google AI service not initialized - check GOOGLE_AI_API_KEY")
URIError == ErrorObject("URI malformed")

\* getGoogleAIService (lines 1011-1018) on the module's variable `instance`:
\* made counts the GoogleAIService objects constructed, numbered from 1, and
\* returned lists the objects handed to the callers.
getGoogleAIService(m) ==
    IF ~IsSome(m.instance)
    THEN [instance |-> Some(m.made + 1), made |-> m.made + 1,
          returned |-> Append(m.returned, m.made + 1)]
    ELSE [m EXCEPT !.returned = Append(@, Val(m.instance))]

\* let instance = null (line 1011), and the module once line 1020 has run.
NoInstance == [instance |-> None, made |-> 0, returned |-> <<>>]
ModuleLoaded == getGoogleAIService(NoInstance)

Operations ==
    {"generateCardDesigns", "generateMessage", "testConnection", "refineCardDesign",
     "checkGrammar"}

\* One call of an operation of the service: the operation, its arguments
\* (input for a MadlibInput, text for the string arguments), where it is (pc),
\* and its result: the value returned, or the value thrown.  lines records,
\* for the properties, the lines the response text was made of.
NoValue == [designs |-> <<>>, text |-> None, connected |-> None]

IdleCall ==
    [op |-> "none", pc |-> "idle", input |-> EmptyMadlib, text |-> <<>>,
     content |-> None, prompts |-> <<>>, value |-> NoValue, thrown |-> None,
     lines |-> <<>>]

Threw(c, e) == [c EXCEPT !.pc = "threw", !.thrown = Some(e)]
ReturnedValue(c, v) == [c EXCEPT !.pc = "returned", !.value = v]

\* The operation up to its await of model.generateContent, the service being
\* the one ensureInitialized (lines 783-788) has initialized.  Only
\* testConnection calls ensureInitialized and getGenerativeModel inside its
\* try block (lines 926-928); the others call them before it.
OperationBegin(c, service, getModel) ==
    IF ~service.genAI
    THEN IF c.op = "testConnection"
         THEN ReturnedValue(c, [NoValue EXCEPT !.connected = Some(FALSE)])
         ELSE Threw(c, NotInitializedError)
    ELSE IF getModel.kind = "throws"
         THEN IF c.op = "testConnection"
              THEN ReturnedValue(c, [NoValue EXCEPT !.connected = Some(FALSE)])
              ELSE Threw(c, getModel.err)
         ELSE [c EXCEPT !.pc = "awaiting"]

\* Lines 803-811: the designs of the prompts.  encodes tells whether
\* encodeURIComponent accepts the first 50 code units of every prompt: it
\* throws a URIError when the cut leaves half of a surrogate pair.
DesignsOf(c, prompts, encodes) ==
    LET c1 == [c EXCEPT !.prompts = prompts]
    IN IF ~encodes THEN Threw(c1, URIError)
       ELSE ReturnedValue(c1, [NoValue EXCEPT !.designs =
                [i \in DOMAIN prompts |-> createCardDesign(prompts[i], i - 1, c.input)]])

\* A variant of generateMessage that lets the failure out.
MessageFailureRethrown(c, content) == Threw(c, content.err)

\* Lines 916-919: the catch block of generateMessage.
MessageFailure(c, content) ==
    ReturnedValue(c, [NoValue EXCEPT !.text =
        Some(Template("Happy", <<c.input.occasion, c.input.recipient_name>>))])

\* The operation from the settling of model.generateContent to its end.
OperationEnd(c, content, encodes) ==
    LET c1 == [c EXCEPT !.content = Some(content)]
        failed == content.kind = "throws"
    IN CASE c.op = "generateCardDesigns" ->
              DesignsOf(c1, IF failed THEN getFallbackPrompts(c.input)
                                      ELSE ParsePrompts(content.text, c.input), encodes)
         [] c.op = "generateMessage" ->
              IF failed THEN MessageFailure(c1, content)
              ELSE ReturnedValue(c1, [NoValue EXCEPT !.text =
                       Some(Literal(Trim(content.text, WhiteSpace)))])
         [] c.op = "testConnection" ->
              ReturnedValue(c1, [NoValue EXCEPT !.connected = Some(~failed)])
         [] c.op = "refineCardDesign" ->
              IF failed THEN Threw(c1, content.err)
              ELSE IF ~encodes THEN Threw(c1, URIError)
              ELSE ReturnedValue(c1, [NoValue EXCEPT !.designs =
                       <<createCardDesign(Literal(Trim(content.text, WhiteSpace)), 0,
                                          EmptyMadlib)>>])
         [] c.op = "checkGrammar" ->
              IF failed THEN ReturnedValue(c1, [NoValue EXCEPT !.text = Some(Literal(c.text))])
              ELSE ReturnedValue(c1, [NoValue EXCEPT !.text =
                       Some(Literal(Trim(content.text, WhiteSpace)))])

ConfiguredEnv ==
    [GOOGLE_AI_API_KEY |-> Some("key"), GOOGLE_TEXT_MODEL |-> None,
     GOOGLE_IMAGE_MODEL |-> None]

(***************************************************************************)
(* MockGiftCardService.  Amounts of money are in cents (min_value 5.00 is  *)
(* 500), so that amounts just outside a merchant's interval are integers.  *)
(* Names, descriptions and categories are searched by the code and are     *)
(* sequences of one-character strings; ids and URLs are compared as a      *)
(* whole and are strings.                                                  *)
(***************************************************************************)
mockCatalog ==
    <<
      [id |-> "amazon",
       name |-> <<"A", "m", "a", "z", "o", "n">>,
       logo_url |-> "https://logo.clearbit.com/amazon.com",
       categories |->
         << <<"r", "e", "t", "a", "i", "l">>,
           <<"e", "l", "e", "c", "t", "r", "o", "n", "i", "c", "s">>,
           <<"b", "o", "o", "k", "s">> >>,
       min_value |-> 100, max_value |-> 200000, currency |-> "USD", available |-> TRUE,
       description |-> <<"S", "h", "o", "p", " ", "m", "i", "l", "l", "i",
          "o", "n", "s", " ", "o", "f", " ", "p", "r", "o", "d", "u", "c",
          "t", "s", " ", "o", "n", " ", "A", "m", "a", "z", "o", "n">>],
      [id |-> "starbucks",
       name |-> <<"S", "t", "a", "r", "b", "u", "c", "k", "s">>,
       logo_url |-> "https://logo.clearbit.com/starbucks.com",
       categories |->
         << <<"f", "o", "o", "d">>,
           <<"c", "o", "f", "f", "e", "e">>,
           <<"d", "i", "n", "i", "n", "g">> >>,
       min_value |-> 500, max_value |-> 50000, currency |-> "USD", available |-> TRUE,
       description |-> <<"C", "o", "f", "f", "e", "e", ",", " ", "t", "e",
          "a", ",", " ", "a", "n", "d", " ", "m", "o", "r", "e", " ", "a",
          "t", " ", "S", "t", "a", "r", "b", "u", "c", "k", "s">>],
      [id |-> "target",
       name |-> <<"T", "a", "r", "g", "e", "t">>,
       logo_url |-> "https://logo.clearbit.com/target.com",
       categories |->
         << <<"r", "e", "t", "a", "i", "l">>,
           <<"h", "o", "m", "e">>,
           <<"c", "l", "o", "t", "h", "i", "n", "g">> >>,
       min_value |-> 1000, max_value |-> 100000, currency |-> "USD", available |-> TRUE,
       description |-> <<"E", "x", "p", "e", "c", "t", " ", "M", "o", "r",
          "e", ".", " ", "P", "a", "y", " ", "L", "e", "s", "s", ".">>],
      [id |-> "walmart",
       name |-> <<"W", "a", "l", "m", "a", "r", "t">>,
       logo_url |-> "https://logo.clearbit.com/walmart.com",
       categories |->
         << <<"r", "e", "t", "a", "i", "l">>,
           <<"g", "r", "o", "c", "e", "r", "y">>,
           <<"e", "l", "e", "c", "t", "r", "o", "n", "i", "c", "s">> >>,
       min_value |-> 500, max_value |-> 100000, currency |-> "USD", available |-> TRUE,
       description |-> <<"S", "a", "v", "e", " ", "M", "o", "n", "e", "y",
          ".", " ", "L", "i", "v", "e", " ", "B", "e", "t", "t", "e", "r",
          ".">>],
      [id |-> "apple",
       name |-> <<"A", "p", "p", "l", "e">>,
       logo_url |-> "https://logo.clearbit.com/apple.com",
       categories |->
         << <<"e", "l", "e", "c", "t", "r", "o", "n", "i", "c", "s">>,
           <<"t", "e", "c", "h", "n", "o", "l", "o", "g", "y">> >>,
       min_value |-> 2500, max_value |-> 200000, currency |-> "USD", available |-> TRUE,
       description |-> <<"F", "o", "r", " ", "a", "p", "p", "s", ",", " ",
          "g", "a", "m", "e", "s", ",", " ", "m", "u", "s", "i", "c", ",",
          " ", "a", "n", "d", " ", "m", "o", "r", "e">>],
      [id |-> "spotify",
       name |-> <<"S", "p", "o", "t", "i", "f", "y">>,
       logo_url |-> "https://logo.clearbit.com/spotify.com",
       categories |->
         << <<"e", "n", "t", "e", "r", "t", "a", "i", "n", "m", "e", "n", "t">>,
           <<"m", "u", "s", "i", "c">> >>,
       min_value |-> 1000, max_value |-> 10000, currency |-> "USD", available |-> TRUE,
       description |-> <<"M", "u", "s", "i", "c", " ", "f", "o", "r", " ",
          "e", "v", "e", "r", "y", "o", "n", "e">>],
      [id |-> "netflix",
       name |-> <<"N", "e", "t", "f", "l", "i", "x">>,
       logo_url |-> "https://logo.clearbit.com/netflix.com",
       categories |->
         << <<"e", "n", "t", "e", "r", "t", "a", "i", "n", "m", "e", "n", "t">>,
           <<"s", "t", "r", "e", "a", "m", "i", "n", "g">> >>,
       min_value |-> 2500, max_value |-> 20000, currency |-> "USD", available |-> TRUE,
       description |-> <<"W", "a", "t", "c", "h", " ", "T", "V", " ", "s",
          "h", "o", "w", "s", " ", "a", "n", "d", " ", "m", "o", "v", "i",
          "e", "s">>],
      [id |-> "uber",
       name |-> <<"U", "b", "e", "r">>,
       logo_url |-> "https://logo.clearbit.com/uber.com",
       categories |->
         << <<"t", "r", "a", "n", "s", "p", "o", "r", "t", "a", "t", "i", "o", "n">>,
           <<"f", "o", "o", "d">> >>,
       min_value |-> 1500, max_value |-> 50000, currency |-> "USD", available |-> TRUE,
       description |-> <<"R", "i", "d", "e", "s", " ", "a", "n", "d", " ",
          "f", "o", "o", "d", " ", "d", "e", "l", "i", "v", "e", "r", "y">>],
      [id |-> "doordash",
       name |-> <<"D", "o", "o", "r", "D", "a", "s", "h">>,
       logo_url |-> "https://logo.clearbit.com/doordash.com",
       categories |->
         << <<"f", "o", "o", "d">>,
           <<"d", "e", "l", "i", "v", "e", "r", "y">> >>,
       min_value |-> 1500, max_value |-> 50000, currency |-> "USD", available |-> TRUE,
       description |-> <<"F", "o", "o", "d", " ", "d", "e", "l", "i", "v",
          "e", "r", "y", " ", "f", "r", "o", "m", " ", "y", "o", "u", "r",
          " ", "f", "a", "v", "o", "r", "i", "t", "e", " ", "r", "e", "s",
          "t", "a", "u", "r", "a", "n", "t", "s">>],
      [id |-> "sephora",
       name |-> <<"S", "e", "p", "h", "o", "r", "a">>,
       logo_url |-> "https://logo.clearbit.com/sephora.com",
       categories |->
         << <<"b", "e", "a", "u", "t", "y">>,
           <<"c", "o", "s", "m", "e", "t", "i", "c", "s">> >>,
       min_value |-> 1000, max_value |-> 50000, currency |-> "USD", available |-> TRUE,
       description |-> <<"B", "e", "a", "u", "t", "y", " ", "p", "r", "o",
          "d", "u", "c", "t", "s", " ", "a", "n", "d", " ", "c", "o", "s",
          "m", "e", "t", "i", "c", "s">>],
      [id |-> "nike",
       name |-> <<"N", "i", "k", "e">>,
       logo_url |-> "https://logo.clearbit.com/nike.com",
       categories |->
         << <<"s", "p", "o", "r", "t", "s">>,
           <<"c", "l", "o", "t", "h", "i", "n", "g">>,
           <<"s", "h", "o", "e", "s">> >>,
       min_value |-> 2500, max_value |-> 50000, currency |-> "USD", available |-> TRUE,
       description |-> <<"A", "t", "h", "l", "e", "t", "i", "c", " ", "s",
          "h", "o", "e", "s", " ", "a", "n", "d", " ", "a", "p", "p", "a",
          "r", "e", "l">>],
      [id |-> "bestbuy",
       name |-> <<"B", "e", "s", "t", " ", "B", "u", "y">>,
       logo_url |-> "https://logo.clearbit.com/bestbuy.com",
       categories |->
         << <<"e", "l", "e", "c", "t", "r", "o", "n", "i", "c", "s">>,
           <<"t", "e", "c", "h", "n", "o", "l", "o", "g", "y">> >>,
       min_value |-> 1500, max_value |-> 200000, currency |-> "USD", available |-> TRUE,
       description |-> <<"E", "l", "e", "c", "t", "r", "o", "n", "i", "c",
          "s", " ", "a", "n", "d", " ", "a", "p", "p", "l", "i", "a", "n",
          "c", "e", "s">>]
    >>

UpperCaseLetters ==
    <<"A", "B", "C", "D", "E", "F", "G", "H", "I", "J", "K", "L", "M",
      "N", "O", "P", "Q", "R", "S", "T", "U", "V", "W", "X", "Y", "Z">>
LowerCaseLetters ==
    <<"a", "b", "c", "d", "e", "f", "g", "h", "i", "j", "k", "l", "m",
      "n", "o", "p", "q", "r", "s", "t", "u", "v", "w", "x", "y", "z">>

\* String.prototype.toLowerCase, on a sequence of characters.
LowerCase(s) ==
    [i \in DOMAIN s |->
        IF \E k \in DOMAIN UpperCaseLetters : UpperCaseLetters[k] = s[i]
        THEN LowerCaseLetters[CHOOSE k \in DOMAIN UpperCaseLetters : UpperCaseLetters[k] = s[i]]
        ELSE s[i]]

\* String.prototype.includes: needle is a substring of hay.
Includes(hay, needle) ==
    \E i \in 0..(Len(hay) - Len(needle)) : SubSeq(hay, i + 1, i + Len(needle)) = needle

\* A variant that looks at the first element only.
ArrayIncludesFirst(array, x) == array # <<>> /\ array[1] = x

\* Array.prototype.includes.
ArrayIncludes(array, x) == \E i \in DOMAIN array : array[i] = x

RECURSIVE JoinWith(_, _)
\* Array.prototype.join(sep)
JoinWith(array, sep) ==
    IF array = <<>> THEN <<>>
    ELSE IF Len(array) = 1 THEN array[1]
    ELSE array[1] \o sep \o JoinWith(Tail(array), sep)

\* if (query), if (category): an optional string that is given and not empty.
Given(o) == IsSome(o) /\ Val(o) # <<>>

\* A variant in which a merchant passes when it passes either filter.
searchGiftCardsEither(catalog, query, category) ==
    IF Given(query) /\ Given(category)
    THEN SelectSeq(catalog, LAMBDA m :
             \/ Includes(LowerCase(m.name), LowerCase(Val(query)))
             \/ Includes(LowerCase(m.description), LowerCase(Val(query)))
             \/ \E k \in DOMAIN m.categories :
                   Includes(LowerCase(m.categories[k]), LowerCase(Val(query)))
             \/ ArrayIncludes(m.categories, LowerCase(Val(category))))
    ELSE IF Given(query)
    THEN SelectSeq(catalog, LAMBDA m :
             \/ Includes(LowerCase(m.name), LowerCase(Val(query)))
             \/ Includes(LowerCase(m.description), LowerCase(Val(query)))
             \/ \E k \in DOMAIN m.categories :
                   Includes(LowerCase(m.categories[k]), LowerCase(Val(query))))
    ELSE IF Given(category)
    THEN SelectSeq(catalog, LAMBDA m :
             ArrayIncludes(m.categories, LowerCase(Val(category))))
    ELSE catalog

\* searchGiftCards (lines 192-217), after its delay.
searchGiftCards(catalog, query, category) ==
    LET byQuery ==
            IF Given(query)
            THEN LET lowerQuery == LowerCase(Val(query))
                 IN SelectSeq(catalog, LAMBDA m :
                        \/ Includes(LowerCase(m.name), lowerQuery)
                        \/ Includes(LowerCase(m.description), lowerQuery)
                        \/ \E k \in DOMAIN m.categories :
                              Includes(LowerCase(m.categories[k]), lowerQuery))
            ELSE catalog
    IN IF Given(category)
       THEN SelectSeq(byQuery, LAMBDA m :
                ArrayIncludes(m.categories, LowerCase(Val(category))))
       ELSE byQuery

\* getMerchant (lines 222-225): find(...) || null.
getMerchant(catalog, merchantId) ==
    IF \E i \in DOMAIN catalog : catalog[i].id = merchantId
    THEN Some(catalog[CHOOSE i \in DOMAIN catalog :
                  /\ catalog[i].id = merchantId
                  /\ \A j \in 1..(i - 1) : catalog[j].id # merchantId])
    ELSE None

MerchantNotFound(merchantId) == ErrorObject(Template("Merchant not found", <<merchantId>>))
AmountOutOfRange(merchant) ==
    ErrorObject(Template("Amount must be between", <<merchant.min_value, merchant.max_value>>))

\* What Date.now() and Math.random() give one operation: the time, the
\* estimated price of a product (lines 414-417), the balance (line 332), and
\* whether encodeURIComponent accepts the product name (it throws a URIError
\* on half of a surrogate pair, which substring(0, 50) can leave).
Draw(now, price, balance, encodes) ==
    [now |-> now, suffix |-> "k3x9", code |-> "AB12-CD34-EF56-GH78", pin |-> "4821",
     price |-> price, balance |-> balance, encodes |-> encodes]

\* Lines 249-267: the card of an accepted issuance.
NewGiftCard(merchant, merchantId, amount, draw) ==
    LET giftCardId == Template("gc_mock", <<draw.now, draw.suffix>>)
    IN [id |-> giftCardId,
        merchant_id |-> merchantId,
        merchant_name |-> merchant.name,
        amount |-> amount,
        currency |-> "USD",
        code |-> draw.code,
        pin |-> draw.pin,
        redemption_url |-> Template("mock-redemption", <<merchantId, giftCardId>>),
        wallet_pass_url |-> Template("mock-wallet/pass", <<giftCardId>>),
        qr_code_url |-> Template("qrserver", <<giftCardId>>),
        expires_at |-> Template("now + 365 days", <<draw.now>>),
        status |-> "active",
        created_at |-> Template("now", <<draw.now>>)]

\* A variant that rejects the two ends of the interval as well.
issueGiftCardStrictBounds(catalog, merchantId, amount, draw) ==
    LET found == getMerchant(catalog, merchantId)
    IN IF ~IsSome(found) THEN Throws(MerchantNotFound(merchantId))
       ELSE IF amount <= Val(found).min_value \/ amount >= Val(found).max_value
            THEN Throws(AmountOutOfRange(Val(found)))
            ELSE Returns(NewGiftCard(Val(found), merchantId, amount, draw))

\* A variant that names the card after the first merchant of the catalog.
issueGiftCardFirstName(catalog, merchantId, amount, draw) ==
    LET found == getMerchant(catalog, merchantId)
    IN IF ~IsSome(found) THEN Throws(MerchantNotFound(merchantId))
       ELSE IF amount < Val(found).min_value \/ amount > Val(found).max_value
            THEN Throws(AmountOutOfRange(Val(found)))
            ELSE Returns(NewGiftCard(catalog[1], merchantId, amount, draw))

\* issueGiftCard (lines 230-277), after its delays.
issueGiftCard(catalog, merchantId, amount, draw) ==
    LET found == getMerchant(catalog, merchantId)
    IN IF ~IsSome(found) THEN Throws(MerchantNotFound(merchantId))
       ELSE IF amount < Val(found).min_value \/ amount > Val(found).max_value
            THEN Throws(AmountOutOfRange(Val(found)))
            ELSE Returns(NewGiftCard(Val(found), merchantId, amount, draw))

\* Lines 306-313: the product card made of the standard card.
ProductGiftCard(settled, productUrl, draw) ==
    IF settled.kind = "throws" THEN settled
    ELSE IF ~draw.encodes THEN Throws(URIError)
    ELSE Returns([card |-> settled.value,
                  product_url |-> productUrl,
                  product_name |-> Template("extractProductName", <<productUrl>>),
                  product_image_url |-> Template("placeholder", <<productUrl>>),
                  cart_preload_url |-> Template("cart", <<productUrl, settled.value.id>>),
                  allow_cash_conversion |-> TRUE])

\* `${name} ${description} ${categories.join(' ')}`.toLowerCase() (line 367)
merchantText(merchant) ==
    LowerCase(merchant.name \o <<" ">> \o merchant.description \o <<" ">>
              \o JoinWith(merchant.categories, <<" ">>))

\* Array.prototype.splice(0, end), which takes the elements out of the array.
Splice(array, end) ==
    LET k == IF end < 0 THEN 0 ELSE (IF end > Len(array) THEN Len(array) ELSE end)
    IN [value |-> SubSeq(array, 1, k), array |-> SubSeq(array, k + 1, Len(array))]

\* Array.prototype.slice(0, end): the value it returns and the array after it.
Slice(array, end) ==
    LET k == IF end < 0
             THEN (IF Len(array) + end < 0 THEN 0 ELSE Len(array) + end)
             ELSE (IF end > Len(array) THEN Len(array) ELSE end)
    IN [value |-> SubSeq(array, 1, k), array |-> array]

\* limit: number = 3
LimitOrDefault(limit) == IF IsSome(limit) THEN Val(limit) ELSE 3

\* A variant that answers an empty list when nothing matches.
recommendGiftCardsNoFallback(catalog, interests, limit) ==
    LET recommendations ==
            SelectSeq(catalog, LAMBDA merchant :
                \E k \in DOMAIN interests :
                    Includes(merchantText(merchant), LowerCase(interests[k])))
    IN [merchants |-> Slice(recommendations, LimitOrDefault(limit)).value,
        mockCatalog |-> catalog]

\* A variant that returns every matching merchant, whatever the limit.
recommendGiftCardsUnlimited(catalog, interests, limit) ==
    LET recommendations ==
            SelectSeq(catalog, LAMBDA merchant :
                \E k \in DOMAIN interests :
                    Includes(merchantText(merchant), LowerCase(interests[k])))
    IN IF Len(recommendations) = 0
       THEN LET popular == Slice(catalog, LimitOrDefault(limit))
            IN [merchants |-> popular.value, mockCatalog |-> popular.array]
       ELSE [merchants |-> recommendations, mockCatalog |-> catalog]

\* recommendGiftCards (lines 358-384), after its delay: the merchants it
\* returns and this.mockCatalog after it.
recommendGiftCards(catalog, interests, limit) ==
    LET recommendations ==
            SelectSeq(catalog, LAMBDA merchant :
                \E k \in DOMAIN interests :
                    Includes(merchantText(merchant), LowerCase(interests[k])))
    IN IF Len(recommendations) = 0
       THEN LET popular == Slice(catalog, LimitOrDefault(limit))
            IN [merchants |-> popular.value, mockCatalog |-> popular.array]
       ELSE [merchants |-> Slice(recommendations, LimitOrDefault(limit)).value,
             mockCatalog |-> catalog]

\* An HTTP response: the status and the members of the JSON body.
Response(status, error, message, others, value) ==
    [kind |-> "response", status |-> status, error |-> error, message |-> message,
     others |-> others, value |-> value]

\* The body of POST /api/gift-cards/issue.
IssueBody(merchant_id, amount, recipient_email) ==
    [merchant_id |-> merchant_id, amount |-> amount, recipient_email |-> recipient_email]

\* The bodies of POST /api/gift-cards/issue-product and /recommend.
ProductBody(merchant_id, product_url, recipient_email) ==
    [merchant_id |-> merchant_id, product_url |-> product_url,
     recipient_email |-> recipient_email]
RecommendBody(interests, limit) == [interests |-> interests, limit |-> limit]

NoArgs ==
    [query |-> None, category |-> None, merchantId |-> "", amount |-> 0,
     productUrl |-> "", giftCardId |-> "", platform |-> "", interests |-> <<>>,
     limit |-> None, body |-> IssueBody(None, JMissing, None), path |-> ""]

\* One call of an operation of the service, or of a route: the operation, its
\* arguments, where it is (pc), the merchant issueProductGiftCard has found,
\* and the value returned, the value thrown or the response sent.
IdleCatalogCall ==
    [op |-> "none", pc |-> "idle", args |-> NoArgs, draw |-> Draw(0, 0, 0, TRUE),
     merchant |-> None, result |-> None]

CatalogCall(op, args) == [IdleCatalogCall EXCEPT !.op = op, !.args = args]

Settle(c, result) == [c EXCEPT !.pc = "done", !.result = Some(result)]

\* error instanceof Error ? error.message : 'Unknown error'
RouteFailure(error, thrown) ==
    Response(500, Some(error),
             IF thrown.kind = "Error" THEN Some(thrown.message) ELSE Some("Unknown error"),
             {}, None)

\* The call up to its first await.  A route validates the request (part_002
\* lines 85-100, 128-134, 186-191, 214-219) before it calls the service; a
\* request that matches no route gets the answer of the 404 handler
\* (index.ts lines 49-64).
CatalogBegin(c) ==
    LET b == c.args.body
        absent(o) == ~IsSome(o) \/ Val(o) = ""
    IN CASE c.op = "POST /issue" ->
              IF absent(b.merchant_id) \/ ~Truthy(b.amount) \/ absent(b.recipient_email)
              THEN Settle(c, Response(400, Some("Missing required fields"), None,
                                      {"required"}, None))
              ELSE IF b.amount.p # "number" \/ b.amount.n <= 0
              THEN Settle(c, Response(400, Some("Invalid amount"),
                                      Some("Amount must be a positive number"), {}, None))
              ELSE [c EXCEPT !.pc = "delay", !.args.merchantId = Val(b.merchant_id),
                             !.args.amount = b.amount.n]
         [] c.op = "POST /issue-product" ->
              IF absent(b.merchant_id) \/ absent(b.product_url) \/ absent(b.recipient_email)
              THEN Settle(c, Response(400, Some("Missing required fields"), None,
                                      {"required"}, None))
              ELSE [c EXCEPT !.pc = "delay", !.args.merchantId = Val(b.merchant_id),
                             !.args.productUrl = Val(b.product_url)]
         [] c.op = "GET /:giftCardId/wallet-pass" ->
              IF c.args.platform \notin {"apple", "google"}
              THEN Settle(c, Response(400, Some("Invalid platform"),
                              Some("Platform must be either apple or google"), {}, None))
              ELSE [c EXCEPT !.pc = "delay"]
         [] c.op = "POST /recommend" ->
              IF ~Truthy(b.interests) \/ b.interests.p # "array" \/ b.interests.a = <<>>
              THEN Settle(c, Response(400, Some("Invalid interests"),
                              Some("Interests must be a non-empty array of strings"),
                              {}, None))
              ELSE [c EXCEPT !.pc = "delay", !.args.interests = b.interests.a,
                             !.args.limit = b.limit]
         [] c.op = "unmatched route" ->
              Settle(c, Response(404, Some("Not Found"),
                                 Some(Template("Route not found", <<c.args.path>>)),
                                 {"availableRoutes"}, None))
         [] OTHER -> [c EXCEPT !.pc = "delay"]

\* The call from the end of a delay on, with what the clock and the random
\* generator give it: the call and this.mockCatalog after the step.
CatalogResume(c, catalog, draw) ==
    LET a == c.args
        same(c1) == [call |-> c1, mockCatalog |-> catalog]
    IN CASE c.op = "getCatalog" -> same(Settle(c, Returns(catalog)))
         [] c.op = "searchGiftCards" ->
              same(Settle(c, Returns(searchGiftCards(catalog, a.query, a.category))))
         [] c.op = "getMerchant" ->
              same(Settle(c, Returns(getMerchant(catalog, a.merchantId))))
         [] c.op = "issueGiftCard" ->
              same(Settle([c EXCEPT !.draw = draw],
                          issueGiftCard(catalog, a.merchantId, a.amount, draw)))
         [] c.op = "issueProductGiftCard" ->
              IF c.pc = "delay"
              THEN LET found == getMerchant(catalog, a.merchantId)
                   IN IF ~IsSome(found)
                      THEN same(Settle(c, Throws(MerchantNotFound(a.merchantId))))
                      ELSE same([c EXCEPT !.pc = "issuing", !.merchant = found,
                                          !.draw = draw, !.args.amount = draw.price])
              ELSE same(Settle(c, ProductGiftCard(
                            issueGiftCard(catalog, a.merchantId, a.amount, c.draw),
                            a.productUrl, c.draw)))
         [] c.op = "getBalance" ->
              same(Settle([c EXCEPT !.draw = draw],
                          Returns([balance |-> draw.balance, currency |-> "USD"])))
         [] c.op = "getWalletPass" ->
              same(Settle(c, Returns(
                  [pass_url |-> Template("mock-wallet", <<a.platform, a.giftCardId>>),
                   download_url |-> Template("mock-wallet/download",
                                             <<a.platform, a.giftCardId>>)])))
         [] c.op = "recommendGiftCards" ->
              LET r == recommendGiftCards(catalog, a.interests, a.limit)
              IN [call |-> Settle(c, Returns(r.merchants)), mockCatalog |-> r.mockCatalog]
         [] c.op = "POST /issue" ->
              LET settled == issueGiftCard(catalog, a.merchantId, a.amount, draw)
              IN same(Settle([c EXCEPT !.draw = draw],
                     IF settled.kind = "throws"
                     THEN RouteFailure("Failed to issue gift card", settled.err)
                     ELSE Response(201, None, None, {"gift_card"}, Some(settled.value))))
         [] c.op = "POST /issue-product" ->
              IF c.pc = "delay"
              THEN LET found == getMerchant(catalog, a.merchantId)
                   IN IF ~IsSome(found)
                      THEN same(Settle(c, RouteFailure("Failed to issue product gift card",
                                                       MerchantNotFound(a.merchantId))))
                      ELSE same([c EXCEPT !.pc = "issuing", !.merchant = found,
                                          !.draw = draw, !.args.amount = draw.price])
              ELSE LET settled == ProductGiftCard(
                                      issueGiftCard(catalog, a.merchantId, a.amount, c.draw),
                                      a.productUrl, c.draw)
                   IN same(Settle(c,
                          IF settled.kind = "throws"
                          THEN RouteFailure("Failed to issue product gift card", settled.err)
                          ELSE Response(201, None, None, {"gift_card"}, Some(settled.value))))
         [] c.op = "GET /catalog" ->
              same(Settle(c, Response(200, None, None, {"merchants"}, Some(catalog))))
         [] c.op = "GET /search" ->
              same(Settle(c, Response(200, None, None, {"merchants"},
                                      Some(searchGiftCards(catalog, a.query, a.category)))))
         [] c.op = "GET /merchants/:merchantId" ->
              LET found == getMerchant(catalog, a.merchantId)
              IN same(Settle(c,
                     IF ~IsSome(found)
                     THEN Response(404, Some("Merchant not found"), None,
                                   {"merchant_id"}, None)
                     ELSE Response(200, None, None, {"merchant"}, found)))
         [] c.op = "GET /:giftCardId/balance" ->
              same(Settle([c EXCEPT !.draw = draw],
                          Response(200, None, None, {"balance", "currency"},
                                   Some([balance |-> draw.balance, currency |-> "USD"]))))
         [] c.op = "GET /:giftCardId/wallet-pass" ->
              same(Settle(c, Response(200, None, None, {"pass_url", "download_url"},
                  Some([pass_url |-> Template("mock-wallet", <<a.platform, a.giftCardId>>),
                        download_url |-> Template("mock-wallet/download",
                                                  <<a.platform, a.giftCardId>>)]))))
         [] c.op = "POST /recommend" ->
              LET r == recommendGiftCards(catalog, a.interests, a.limit)
              IN [call |-> Settle(c, Response(200, None, None, {"merchants"},
                                              Some(r.merchants))),
                  mockCatalog |-> r.mockCatalog]

(***************************************************************************)
(* GiftCardService (index.ts lines 110-258), the wrapper the routes call:  *)
(* it hands each operation to the mock service, or to the real API.        *)
(***************************************************************************)
NeoEnv(sandbox, key) == [NEOCURRENCY_SANDBOX |-> sandbox, NEOCURRENCY_API_KEY |-> key]

\* The constructor (lines 113-124).
GiftCardService(environment) ==
    [useMock |-> \/ environment.NEOCURRENCY_SANDBOX = Some("true")
                 \/ ~IsSome(environment.NEOCURRENCY_API_KEY)
                 \/ Val(environment.NEOCURRENCY_API_KEY) = ""]

NotImplemented == ErrorObject("Real NeoCurrency API not yet implemented")

\* The operations of the wrapper and the operation of the mock service each
\* hands over to.
WrapperOps ==
    {"giftCardService.getCatalog", "giftCardService.searchGiftCards",
     "giftCardService.getMerchant", "giftCardService.issueGiftCard",
     "giftCardService.issueProductGiftCard", "giftCardService.getBalance",
     "giftCardService.getWalletPass", "giftCardService.recommendGiftCards"}

Delegate(op) ==
    CASE op = "giftCardService.getCatalog" -> "getCatalog"
      [] op = "giftCardService.searchGiftCards" -> "searchGiftCards"
      [] op = "giftCardService.getMerchant" -> "getMerchant"
      [] op = "giftCardService.issueGiftCard" -> "issueGiftCard"
      [] op = "giftCardService.issueProductGiftCard" -> "issueProductGiftCard"
      [] op = "giftCardService.getBalance" -> "getBalance"
      [] op = "giftCardService.getWalletPass" -> "getWalletPass"
      [] op = "giftCardService.recommendGiftCards" -> "recommendGiftCards"
      [] OTHER -> op

\* The routes that call the wrapper, and the `error` of their catch clause.
RouteError(op) ==
    CASE op = "GET /catalog" -> "Failed to fetch gift card catalog"
      [] op = "GET /search" -> "Failed to search gift cards"
      [] op = "GET /merchants/:merchantId" -> "Failed to fetch merchant"
      [] op = "POST /issue" -> "Failed to issue gift card"
      [] op = "POST /issue-product" -> "Failed to issue product gift card"
      [] op = "GET /:giftCardId/balance" -> "Failed to fetch gift card balance"
      [] op = "GET /:giftCardId/wallet-pass" -> "Failed to generate wallet pass"
      [] op = "POST /recommend" -> "Failed to get gift card recommendations"

RouteOps ==
    {"GET /catalog", "GET /search", "GET /merchants/:merchantId", "POST /issue",
     "POST /issue-product", "GET /:giftCardId/balance", "GET /:giftCardId/wallet-pass",
     "POST /recommend"}

\* A call up to its first await: a call of the wrapper, or of a route once
\* the request is valid, throws at once when the wrapper does not use the
\* mock service (lines 130-142 and the like).
ServiceBegin(service, c) ==
    LET begun == [CatalogBegin([c EXCEPT !.op = Delegate(c.op)]) EXCEPT !.op = c.op]
    IN IF service.useMock \/ begun.pc = "done" THEN begun
       ELSE IF c.op \in WrapperOps THEN Settle(c, Throws(NotImplemented))
       ELSE IF c.op \in RouteOps THEN Settle(c, RouteFailure(RouteError(c.op), NotImplemented))
       ELSE begun

\* The call from the end of a delay on.
ServiceResume(c, catalog, draw) ==
    LET after == CatalogResume([c EXCEPT !.op = Delegate(c.op)], catalog, draw)
    IN [after EXCEPT !.call.op = c.op]

MaxClients == 2

\* The two services as constructed with nothing set in the environment, and
\* the calls in progress on them.
NewGiftCardService ==
    [mockCatalog |-> mockCatalog, calls |-> [i \in 1..MaxClients |-> IdleCatalogCall],
     useMock |-> GiftCardService(NeoEnv(None, None)).useMock,
     builtWith |-> NeoEnv(None, None),
     environment |-> NeoEnv(None, None)]


(***************************************************************************)
(* SMSService.  Phone numbers and the account SID are sequences of         *)
(* one-character strings; message bodies are templates.                    *)
(***************************************************************************)
\* String.prototype.startsWith
StartsWith(s, prefix) == Len(s) >= Len(prefix) /\ SubSeq(s, 1, Len(prefix)) = prefix

\* A variant that puts +1 before the digits of every number.
formatPhoneNumberAlwaysUs(phone) ==
    <<"+", "1">> \o SelectSeq(phone, LAMBDA ch : ch \in Digits)

\* A variant that forgets the country code of a 10-digit number.
formatPhoneNumberNoCountryCode(phone) ==
    LET digits == SelectSeq(phone, LAMBDA ch : ch \in Digits)
    IN IF Len(digits) = 11 /\ StartsWith(digits, <<"1">>) THEN <<"+">> \o digits
       ELSE IF StartsWith(phone, <<"+">>) THEN phone
       ELSE <<"+">> \o digits

\* formatPhoneNumber (part_001 lines 197-216).
formatPhoneNumber(phone) ==
    LET digits == SelectSeq(phone, LAMBDA ch : ch \in Digits)
    IN IF Len(digits) = 10 THEN <<"+", "1">> \o digits
       ELSE IF Len(digits) = 11 /\ StartsWith(digits, <<"1">>) THEN <<"+">> \o digits
       ELSE IF StartsWith(phone, <<"+">>) THEN phone
       ELSE <<"+">> \o digits

\* isValidPhoneNumber (lines 221-225): /^\+\d{11,15}$/ on the formatted number.
isValidPhoneNumber(phone) ==
    LET formatted == formatPhoneNumber(phone)
    IN /\ StartsWith(formatted, <<"+">>)
       /\ \A i \in 2..Len(formatted) : formatted[i] \in Digits
       /\ Len(formatted) - 1 >= 11
       /\ Len(formatted) - 1 <= 15

SmsEnv(sid, token, number) ==
    [TWILIO_ACCOUNT_SID |-> sid, TWILIO_AUTH_TOKEN |-> token, TWILIO_PHONE_NUMBER |-> number]

\* !value for an optional string: absent or empty.
Falsy(o) == ~IsSome(o) \/ Val(o) = ""

\* One sendSMS call: its arguments, the formatted number, whether its promise
\* is pending, fulfilled or rejected, and what it settled with.
NewSend(to, body) ==
    [to |-> to, body |-> body, formattedTo |-> formatPhoneNumber(to), state |-> "pending",
     receipt |-> None, error |-> None]

\* One call of an operation of the service: its arguments (phone, sender,
\* viewers, messages), the sendSMS calls it has made, where it is (pc), and
\* how it ended: the receipts returned, the answer of isValidPhoneNumber, or
\* the value thrown.
IdleSmsCall ==
    [op |-> "none", pc |-> "idle", phone |-> <<>>, sender |-> None, viewers |-> <<>>,
     messages |-> <<>>, sends |-> <<>>, receipts |-> <<>>, valid |-> None, thrown |-> None]

\* A variant of the constructor that does not look for test credentials.
NewSMSServiceNoTestCheck(environment) ==
    LET accountSid == environment.TWILIO_ACCOUNT_SID
        authToken == environment.TWILIO_AUTH_TOKEN
        useMock == ~Given(accountSid) \/ Falsy(authToken)
    IN [useMock |-> useMock, client |-> ~useMock,
        fromNumber |-> IF Falsy(environment.TWILIO_PHONE_NUMBER) THEN "+18553890451"
                       ELSE Val(environment.TWILIO_PHONE_NUMBER),
        builtWith |-> environment, environment |-> environment,
        created |-> <<>>, call |-> IdleSmsCall]

\* The constructor (lines 28-44).  client tells whether this.client is a
\* provider client; created lists the requests handed to
\* client.messages.create; builtWith and environment are the environment at
\* construction and now.
NewSMSService(environment) ==
    LET accountSid == environment.TWILIO_ACCOUNT_SID
        authToken == environment.TWILIO_AUTH_TOKEN
        isTestCredentials ==
            IsSome(accountSid) /\ StartsWith(Val(accountSid), <<"A", "C", "t", "e", "s", "t">>)
        useMock == ~Given(accountSid) \/ Falsy(authToken) \/ isTestCredentials
    IN [useMock |-> useMock, client |-> ~useMock,
        fromNumber |-> IF Falsy(environment.TWILIO_PHONE_NUMBER) THEN "+18553890451"
                       ELSE Val(environment.TWILIO_PHONE_NUMBER),
        builtWith |-> environment, environment |-> environment,
        created |-> <<>>, call |-> IdleSmsCall]

\* Lines 63-69: the receipt of the mock mode.
MockReceipt(service, send) ==
    [sid |-> "mock_sms", status |-> "delivered", to |-> send.formattedTo,
     from |-> service.fromNumber, body |-> send.body]

\* Lines 73-77: the request handed to client.messages.create.
CreateRequest(service, send) ==
    [body |-> send.body, from |-> service.fromNumber, to |-> send.formattedTo]

\* sendSMS (lines 49-92) up to its await: the service with the send added to
\* those of the call in progress.
sendSMS(service, to, body) ==
    LET send == NewSend(to, body)
    IN IF service.useMock \/ ~service.client
       THEN [service EXCEPT !.call.sends =
                Append(@, [send EXCEPT !.state = "fulfilled",
                                       !.receipt = Some(MockReceipt(service, send))])]
       ELSE [service EXCEPT !.call.sends = Append(@, send),
                            !.created = Append(@, CreateRequest(service, send))]

RECURSIVE SendAll(_, _, _)
\* phones.map(phone => this.sendSMS(phone, body)): the calls are made in order.
SendAll(service, phones, body) ==
    IF phones = <<>> THEN service
    ELSE SendAll(sendSMS(service, Head(phones), body), Tail(phones), body)

RECURSIVE SendMessages(_, _)
\* messages.map(msg => this.sendSMS(msg.to, msg.body))
SendMessages(service, messages) ==
    IF messages = <<>> THEN service
    ELSE SendMessages(sendSMS(service, Head(messages).to, Head(messages).body),
                      Tail(messages))

\* senderName ? ... : ...
Named(senderName) == IsSome(senderName) /\ Val(senderName) # ""

\* Lines 81-87: the receipt made of the message the provider answered with.
ReceiptOf(message) ==
    [sid |-> message.sid, status |-> message.status, to |-> message.to,
     from |-> message.from, body |-> message.body]

\* Promise.all and return: the operation returns once every send is
\* fulfilled, with the receipts in the order of the calls.
FinishSending(service) ==
    LET sends == service.call.sends
    IN IF \A k \in DOMAIN sends : sends[k].state = "fulfilled"
       THEN [service EXCEPT !.call.pc = "returned",
                            !.call.receipts = [k \in DOMAIN sends |-> Val(sends[k].receipt)]]
       ELSE service

ViewerMessage == Template("Your group gift has been sent", <<>>)

\* A variant that starts the viewer sends without waiting for the recipient
\* send.
SmsAdvanceAtOnce(service) ==
    LET c == service.call
    IN IF c.pc = "recipient"
       THEN FinishSending(SendAll([service EXCEPT !.call.pc = "sending"],
                                  c.viewers, ViewerMessage))
       ELSE IF c.pc = "sending" THEN FinishSending(service)
       ELSE service

\* The operation goes on after a send is fulfilled.  sendGroupGiftNotification
\* (lines 119-130) starts the viewer sends once the recipient send is
\* fulfilled.
SmsAdvance(service) ==
    LET c == service.call
    IN IF c.pc = "recipient"
       THEN IF c.sends[1].state = "fulfilled"
            THEN FinishSending(SendAll([service EXCEPT !.call.pc = "sending"],
                                       c.viewers, ViewerMessage))
            ELSE service
       ELSE IF c.pc = "sending" THEN FinishSending(service)
       ELSE service

\* The operation c is called: it runs up to its first await that is pending.
SmsBegin(service, c) ==
    LET s == [service EXCEPT !.call = c]
        url == "https://pop.gifts/g/1"
    IN CASE c.op = "sendSMS" ->
              SmsAdvance(sendSMS([s EXCEPT !.call.pc = "sending"], c.phone,
                                 Template("body", <<>>)))
         [] c.op = "sendGiftLink" ->
              SmsAdvance(sendSMS([s EXCEPT !.call.pc = "sending"], c.phone,
                                 IF Named(c.sender)
                                 THEN Template("sent you a gift", <<Val(c.sender), url>>)
                                 ELSE Template("You've received a gift", <<url>>)))
         [] c.op = "sendGroupGiftNotification" ->
              SmsAdvance(sendSMS([s EXCEPT !.call.pc = "recipient"], c.phone,
                                 IF Named(c.sender)
                                 THEN Template("and friends sent you a group gift",
                                               <<Val(c.sender), url>>)
                                 ELSE Template("You've received a group gift from friends",
                                               <<url>>)))
         [] c.op = "sendViewerInvitation" ->
              SmsAdvance(sendSMS([s EXCEPT !.call.pc = "sending"], c.phone,
                                 Template("invited you to contribute", <<"Ann", "Bo", url>>)))
         [] c.op = "sendViewerMessage" ->
              SmsAdvance(sendSMS([s EXCEPT !.call.pc = "sending"], c.phone,
                                 Template("Message from", <<"Ann", "hello">>)))
         [] c.op = "sendVerificationCode" ->
              SmsAdvance(sendSMS([s EXCEPT !.call.pc = "sending"], c.phone,
                                 Template("verification code", <<"123456">>)))
         [] c.op = "sendBatch" ->
              SmsAdvance(SendMessages([s EXCEPT !.call.pc = "sending"], c.messages))
         [] c.op = "isValidPhoneNumber" ->
              [s EXCEPT !.call.pc = "returned",
                        !.call.valid = Some(isValidPhoneNumber(c.phone))]

\* client.messages.create settles for send k: with a message (lines 79-87)
\* or with a failure, which sendSMS throws again (lines 88-91) and which
\* rejects the operation that is awaiting the send.
SmsSettle(service, k, settled) ==
    IF settled.kind = "throws"
    THEN LET s == [service EXCEPT !.call.sends[k].state = "rejected",
                                  !.call.sends[k].error = Some(settled.err)]
         IN IF service.call.pc \in {"recipient", "sending"}
            THEN [s EXCEPT !.call.pc = "rejected", !.call.thrown = Some(settled.err)]
            ELSE s
    ELSE SmsAdvance([service EXCEPT !.call.sends[k].state = "fulfilled",
                                    !.call.sends[k].receipt = Some(ReceiptOf(settled.value))])

SmsIdle == NewSMSService(SmsEnv(None, None, None))

(***************************************************************************)
(* The workflow: one generateCard call, one action per resumption.         *)
(***************************************************************************)
\* doc and wrapping record, for the properties, what the text was built from.
ApIdle == [pc |-> "idle", awaited |-> FALSE, content |-> ContentThrows(ThrownNull),
           result |-> None, error |-> None, doc |-> None, wrapping |-> "none"]

Init ==
    /\ req \in {NewRequest(p, u, t) : p \in Prompts, u \in UserIds, t \in StartTimes}
    /\ ap = ApIdle
    /\ env = ConfiguredEnv
    /\ svc = NewService
    /\ call = IdleCall
    /\ gift = NewGiftCardService
    /\ sms = SmsIdle
    /\ reqs = <<>>
    /\ instance = ModuleLoaded

Start ==
    /\ req.pc = "start"
    /\ \/ req' = BeginAnalysis(req, ModelObtained)
       \/ \E e \in ThrownValues : req' = BeginAnalysis(req, Throws(e))
    /\ UNCHANGED <<ap, env, svc, call, gift, sms, reqs, instance>>

AnalysisSettles ==
    /\ req.pc = "analyzing"
    /\ \E content \in SampleContents : req' = AfterAnalysis(req, content)
    /\ UNCHANGED <<ap, env, svc, call, gift, sms, reqs, instance>>

IllustratorSettles ==
    /\ req.pc = "illustrating"
    /\ LET request == IllustrationRequest(req.state.prompt, Val(req.state.analysis))
       IN \/ \E res \in IllustrationResults(request) :
                req' = AfterIllustration(req, Returns(res))
          \/ \E e \in ThrownValues : req' = AfterIllustration(req, Throws(e))
    /\ UNCHANGED <<ap, env, svc, call, gift, sms, reqs, instance>>

EditorSettles ==
    /\ req.pc = "editing"
    /\ \/ \E res \in EditResults(Val(req.state.layerTree)) :
             req' = AfterEditing(req, Returns(res))
       \/ \E e \in ThrownValues : req' = AfterEditing(req, Throws(e))
    /\ UNCHANGED <<ap, env, svc, call, gift, sms, reqs, instance>>

AnimatorSettles ==
    /\ req.pc = "animating"
    /\ \/ \E tree \in AnimationResults(Val(req.state.layerTree)) :
             req' = AfterAnimation(req, Returns(tree))
       \/ \E e \in ThrownValues : req' = AfterAnimation(req, Throws(e))
    /\ UNCHANGED <<ap, env, svc, call, gift, sms, reqs, instance>>

GiftAgentSettles ==
    /\ req.pc = "shopping"
    /\ \/ \E res \in GiftResults : req' = AfterShopping(req, Returns(res))
       \/ \E e \in ThrownValues : req' = AfterShopping(req, Throws(e))
    /\ UNCHANGED <<ap, env, svc, call, gift, sms, reqs, instance>>

Next ==
    \/ Start
    \/ AnalysisSettles
    \/ IllustratorSettles
    \/ EditorSettles
    \/ AnimatorSettles
    \/ GiftAgentSettles

Spec == Init /\ [][Next]_vars

(***************************************************************************)
(* analyzePrompt on its own, over every decoded document the validation    *)
(* of lines 206-213 distinguishes and every way the text can wrap it.      *)
(***************************************************************************)
StringMembers == {JMissing, JNull, JStr(""), JStr("birthday")}
NumberMembers == {JMissing, JNull, JNum(0), JNum(30)}
InterestMembers == {JMissing, JNull, JStr("golf"), JArr(<<>>), JArr(<<"golf", "tea">>)}

Documents ==
    {JsonInvalid, JsonNull, JsonScalar} \cup
    {JsonObject(f) : f \in [occasion : StringMembers, recipient : StringMembers,
                            age : NumberMembers, interests : InterestMembers,
                            tone : StringMembers,
                            illustrationStyle : StringMembers]}

Wrappings == {"bare", "json fence", "plain fence", "padded", "prose before"}

Wrap(json, wrapping) ==
    CASE wrapping = "bare" -> <<Payload(json)>>
      [] wrapping = "json fence" -> <<FenceJson, NL, Payload(json), NL, Fence>>
      [] wrapping = "plain fence" -> <<Fence, NL, Payload(json), Fence, NL>>
      [] wrapping = "padded" -> <<SP, NL, Payload(json), NL>>
      [] wrapping = "prose before" -> <<Prose, NL, FenceJson, NL, Payload(json), NL, Fence>>

\* Lines 175-197: up to the await; getGenerativeModel runs outside the try.
analyzePromptBegin(a, getModel) ==
    IF getModel.kind = "throws"
    THEN [a EXCEPT !.pc = "rejected", !.error = Some(getModel.err)]
    ELSE [a EXCEPT !.pc = "awaiting", !.awaited = TRUE]

\* Lines 197-224.
analyzePromptEnd(a, content) ==
    [a EXCEPT !.pc = "returned", !.content = content,
              !.result = Some(analyzePromptResult(content))]

InitAnalyze ==
    /\ req = NewRequest("thanks", None, 1)
    /\ ap = ApIdle
    /\ env = ConfiguredEnv
    /\ svc = NewService
    /\ call = IdleCall
    /\ gift = NewGiftCardService
    /\ sms = SmsIdle
    /\ reqs = <<>>
    /\ instance = ModuleLoaded

AnalyzePromptCalled ==
    /\ ap.pc = "idle"
    /\ \/ ap' = analyzePromptBegin(ap, ModelObtained)
       \/ \E e \in ThrownValues : ap' = analyzePromptBegin(ap, Throws(e))
    /\ UNCHANGED <<req, env, svc, call, gift, sms, reqs, instance>>

GenerateContentSettles ==
    /\ ap.pc = "awaiting"
    /\ \/ \E e \in ThrownValues : ap' = analyzePromptEnd(ap, ContentThrows(e))
       \/ \E json \in Documents, w \in Wrappings :
             ap' = [analyzePromptEnd(ap, ContentText(Wrap(json, w)))
                      EXCEPT !.doc = Some(json), !.wrapping = w]
    /\ UNCHANGED <<req, env, svc, call, gift, sms, reqs, instance>>

NextAnalyze == AnalyzePromptCalled \/ GenerateContentSettles

SpecAnalyze == InitAnalyze /\ [][NextAnalyze]_vars

(***************************************************************************)
(* Properties of the workflow (specification Spec).                        *)
(***************************************************************************)
Events == {req.trace[i] : i \in DOMAIN req.trace}
Calls(agent) == {i \in DOMAIN req.trace : req.trace[i] = CallEvent(agent)}
Steps(s) == {i \in DOMAIN req.trace : req.trace[i] = StepEvent(s)}
Returned == req.pc = "done" /\ req.outcome = "fulfilled"

\* C1: once currentStep has been assigned `failed` or `complete`, nothing is
\* invoked afterwards for the request: no prompt analysis, no remote call and
\* no agent follows that assignment in the order of events, and the run is over.
C1_NoCallAfterTerminalStep ==
    \A i \in Steps("failed") \cup Steps("complete") :
        /\ \A j \in DOMAIN req.trace : j > i => req.trace[j].k # "call"
        /\ req.pc = "done"

\* C1 witness: a run that failed after the illustrator had been invoked, and
\* is over.
C1_Witness ==
    /\ req.state.currentStep = "failed"
    /\ Calls("illustrator") # {}
    /\ req.pc = "done"

IllustratorReportedFailure ==
    /\ IsSome(req.got.illustrator)
    /\ ~Val(req.got.illustrator).success \/ ~IsSome(Val(req.got.illustrator).layerTree)

\* C2: if the illustrator returns success = false or no layer tree, the call
\* returns a state with currentStep `failed` and a non-empty errors list, and
\* neither the editor, the animator nor the gift agent is invoked.
C2_IllustratorFailureAborts ==
    IllustratorReportedFailure =>
        /\ Returned
        /\ req.state.currentStep = "failed"
        /\ req.state.errors # <<>>
        /\ Calls("editor") \cup Calls("animator") \cup Calls("giftAgent") = {}

\* C2 witness: the illustrator returned success = true without a layer tree.
C2_Witness ==
    /\ IsSome(req.got.illustrator)
    /\ Val(req.got.illustrator).success
    /\ ~IsSome(Val(req.got.illustrator).layerTree)
    /\ Returned

\* C3: when generateCard is called without a userId, the state holds no gift
\* recommendations and currentStep is never assigned `shopping`.
C3_NoShoppingStepWithoutUserId ==
    req.state.userId = None =>
        /\ req.state.giftRecommendations = None
        /\ Steps("shopping") = {}

C5_NeverRejects ==
    req.pc = "done" =>
        /\ req.outcome = "fulfilled"
        /\ IsSome(req.got.caught) =>
              /\ req.state.currentStep = "failed"
              /\ Len(req.state.errors) = 1
              /\ IsSome(req.state.errors[1])

\* C6: prompt analysis cannot abort the pipeline: whatever the generation
\* client does, analyzePrompt returns a PromptAnalysis and the run reaches the
\* illustrating step.
C6_AnalysisNeverAborts ==
    req.pc = "done" =>
        /\ IsSome(req.state.analysis)
        /\ Steps("illustrating") # {}

EditorReportedFailure ==
    /\ IsSome(req.got.editor)
    /\ ~Val(req.got.editor).success \/ ~IsSome(Val(req.got.editor).layerTree)

EditorReportedSuccess ==
    /\ IsSome(req.got.editor)
    /\ Val(req.got.editor).success
    /\ IsSome(Val(req.got.editor).layerTree)

\* C8: if the editor reports failure (success = false or no layer tree) the
\* tree of the illustration step is kept, no error is recorded, and the
\* animator is invoked with that tree; if the editor reports success, its tree
\* replaces the design tree.
C8_EditorSoftFail ==
    /\ EditorReportedFailure =>
          /\ req.got.animatorArg = Val(req.got.illustrator).layerTree
          /\ Calls("animator") # {}
          /\ Steps("animating") # {}
          /\ req.pc = "animating" => req.state.errors = <<>>
          /\ req.state.currentStep = "complete" => req.state.errors = <<>>
    /\ EditorReportedSuccess =>
          req.got.animatorArg = Val(req.got.editor).layerTree

\* C8 witness: the editor returned success = false with a rewritten tree, and
\* the run ended `complete` with the illustrator's tree.
C8_Witness ==
    /\ IsSome(req.got.editor)
    /\ ~Val(req.got.editor).success
    /\ IsSome(Val(req.got.editor).layerTree)
    /\ req.state.currentStep = "complete"
    /\ req.state.layerTree = Val(req.got.illustrator).layerTree

(***************************************************************************)
(* Properties of analyzePrompt (specification SpecAnalyze).                *)
(***************************************************************************)
Decodable == IsSome(ap.doc) /\ Val(ap.doc).type # "invalid" /\ ap.wrapping # "prose before"

HasString(m) == m.p = "string" /\ m.s # ""

\* C7: when generateContent throws or its text does not decode as JSON once
\* the code fences are stripped, analyzePrompt returns occasion "celebration",
\* tone "celebratory", illustrationStyle "cartoon", interests [] with no
\* recipient and no age, and never throws; when the text decodes, a member that
\* is missing takes its default and a member that has a value keeps it.
C7_FallbackAnalysis ==
    /\ ap.awaited => ap.pc \in {"awaiting", "returned"}
    /\ ap.pc = "returned" =>
          LET res == Val(ap.result)
          IN IF ~Decodable
             THEN res = [occasion |-> "celebration", recipient |-> None, age |-> None,
                         interests |-> <<>>, tone |-> "celebratory",
                         illustrationStyle |-> "cartoon"]
             ELSE LET f == Val(ap.doc).fields
                  IN /\ f.occasion.p = "missing" => res.occasion = "celebration"
                     /\ HasString(f.occasion) => res.occasion = f.occasion.s
                     /\ f.recipient.p = "missing" => res.recipient = None
                     /\ HasString(f.recipient) => res.recipient = Some(f.recipient.s)
                     /\ f.age.p = "missing" => res.age = None
                     /\ (f.age.p = "number" /\ f.age.n # 0) => res.age = Some(f.age.n)
                     /\ f.interests.p = "missing" => res.interests = <<>>
                     /\ f.interests.p = "array" => res.interests = f.interests.a
                     /\ f.tone.p = "missing" => res.tone = "celebratory"
                     /\ HasString(f.tone) => res.tone = f.tone.s
                     /\ f.illustrationStyle.p = "missing" => res.illustrationStyle = "cartoon"
                     /\ HasString(f.illustrationStyle) =>
                           res.illustrationStyle = f.illustrationStyle.s

\* C7 witness: a fenced document that decodes, with tone missing and the other
\* members present: only tone is the default.
C7_Witness ==
    /\ ap.pc = "returned"
    /\ ap.wrapping = "plain fence"
    /\ Decodable
    /\ Val(ap.doc).fields.tone = JMissing
    /\ Val(ap.result) = [occasion |-> "birthday", recipient |-> Some("birthday"),
                         age |-> Some(30), interests |-> <<"golf", "tea">>,
                         tone |-> "celebratory", illustrationStyle |-> "birthday"]

(***************************************************************************)
(* The service: one operation at a time, called and then settled.          *)
(***************************************************************************)
MaxResponseLines == 4

Chars(str) == [chars |-> str, prompt |-> None]
Numbered(str, prompt) == [chars |-> str, prompt |-> Some(prompt)]

\* Lines a response can hold, each with the prompt the expressions of lines
\* 846-848 make of it, if any.
ResponseLines ==
    {Numbered(<<"1", ".", "a">>, <<"a">>),
     Numbered(<<"2", ")", " ", "b">>, <<"b">>),
     Numbered(<<"1", "0", ":", "c", " ">>, <<"c">>),
     Numbered(<<" ", "1", ".", "d">>, <<"1", ".", "d">>),
     Chars(<<"1", ".", " ">>),
     Chars(<<"a", "1", ".">>),
     Chars(<<"1", "a">>),
     Chars(<<>>)}

RECURSIVE JoinLines(_)
JoinLines(ls) ==
    IF Len(ls) = 1 THEN ls[1].chars
    ELSE ls[1].chars \o <<"\n">> \o JoinLines(Tail(ls))

Responses == UNION {[1..n -> ResponseLines] : n \in 1..MaxResponseLines}

SampleTexts == {<<>>, <<" ", "h", "i", "\n">>, <<"o", "k">>}

InitGateway ==
    /\ req = NewRequest("thanks", None, 1)
    /\ ap = ApIdle
    /\ env \in {ConfiguredEnv, [ConfiguredEnv EXCEPT !.GOOGLE_AI_API_KEY = None]}
    /\ svc = NewService
    /\ call = IdleCall
    /\ gift = NewGiftCardService
    /\ sms = SmsIdle
    /\ reqs = <<>>
    /\ instance = ModuleLoaded

\* The call of op with these arguments, about to start.
NewCall(op, input, text) == [IdleCall EXCEPT !.op = op, !.input = input, !.text = text]

\* The calls a caller can make.
OperationCalls ==
    LET madlibCalls == {NewCall(op, input, <<>>) :
                           op \in {"generateCardDesigns", "generateMessage"},
                           input \in MadlibInputs}
        textCalls == {NewCall(op, EmptyMadlib, text) :
                         op \in {"refineCardDesign", "checkGrammar"},
                         text \in SampleTexts}
    IN madlibCalls \cup textCalls \cup {NewCall("testConnection", EmptyMadlib, <<>>)}

OperationCalled ==
    /\ call.pc = "idle"
    /\ \E c \in OperationCalls :
          LET service == initialize(svc, env)
          IN /\ svc' = service
             /\ \/ call' = OperationBegin(c, service, ModelObtained)
                \/ \E e \in ThrownValues : call' = OperationBegin(c, service, Throws(e))
    /\ UNCHANGED <<req, ap, env, gift, sms, reqs, instance>>

\* The caller has taken the result of the call.
OperationOver ==
    /\ call.pc \in {"returned", "threw"}
    /\ call' = IdleCall
    /\ UNCHANGED <<req, ap, env, svc, gift, sms, reqs, instance>>

ContentSettles ==
    /\ call.pc = "awaiting"
    /\ \E encodes \in BOOLEAN :
          \/ \E e \in ThrownValues : call' = OperationEnd(call, ContentThrows(e), encodes)
          \/ /\ call.op = "generateCardDesigns"
             /\ \E ls \in Responses :
                   call' = [OperationEnd(call, ContentText(JoinLines(ls)), encodes)
                              EXCEPT !.lines = ls]
          \/ /\ call.op # "generateCardDesigns"
             /\ \E text \in SampleTexts :
                   call' = OperationEnd(call, ContentText(text), encodes)
    /\ UNCHANGED <<req, ap, env, svc, gift, sms, reqs, instance>>

NextGateway == OperationCalled \/ ContentSettles \/ OperationOver

SpecGateway == InitGateway /\ [][NextGateway]_vars

(***************************************************************************)
(* Properties of the service (specification SpecGateway).                  *)
(***************************************************************************)
ContentFailed == IsSome(call.content) /\ Val(call.content).kind = "throws"

ExpectedFallback(input) ==
    LET occasion == IF input.occasion = "Birthday" THEN "birthday" ELSE input.occasion
    IN [i \in 1..3 |->
          [kind |-> <<"vibrant", "elegant", "playful">>[i], chars |-> <<>>,
           args |-> <<occasion>> \o input.interests]]

\* C9: for every operation of the service, a failure of the remote call ends
\* in a returned value and not in an exception.
C9_NeverRaises == ContentFailed => call.pc = "returned"

\* C9 as amended: when the remote call fails, generateMessage returns its
\* template, checkGrammar the text it was given, testConnection false, and
\* the prompt step of generateCardDesigns the fallback triplet; testConnection
\* never throws; refineCardDesign throws what the remote call threw.
C9_FallbackExceptRefine ==
    /\ call.op = "testConnection" => call.pc # "threw"
    /\ ContentFailed =>
          CASE call.op = "generateMessage" ->
                  /\ call.pc = "returned"
                  /\ call.value.text =
                        Some([kind |-> "Happy", chars |-> <<>>,
                              args |-> <<call.input.occasion, call.input.recipient_name>>])
            [] call.op = "checkGrammar" ->
                  /\ call.pc = "returned"
                  /\ call.value.text = Some([kind |-> "literal", chars |-> call.text,
                                             args |-> <<>>])
            [] call.op = "testConnection" ->
                  /\ call.pc = "returned"
                  /\ call.value.connected = Some(FALSE)
            [] call.op = "generateCardDesigns" ->
                  call.prompts = ExpectedFallback(call.input)
            [] call.op = "refineCardDesign" ->
                  /\ call.pc = "threw"
                  /\ call.thrown = Some(Val(call.content).err)

\* C9 witness: generateMessage returned its template after the remote call
\* threw.
C9_Witness ==
    /\ call.op = "generateMessage"
    /\ ContentFailed
    /\ call.pc = "returned"
    /\ IsSome(call.value.text)

ExpectedPrompts == SelectSeq(call.lines, LAMBDA line : IsSome(line.prompt))

\* C10: the prompts generateImagePrompts yields are always exactly 3: the
\* first three lines that start (blanks aside) with a numeral and `.`, `)` or
\* `:` and are not empty behind it, or, when there are fewer than three such
\* lines or the remote call throws, the three fallback prompts made of the
\* occasion and the interests; never fewer, and never a mix of the two.
C10_ThreePromptsOrFallback ==
    (call.op = "generateCardDesigns" /\ IsSome(call.content)) =>
        /\ Len(call.prompts) = 3
        /\ IF ContentFailed \/ Len(ExpectedPrompts) < 3
           THEN call.prompts = ExpectedFallback(call.input)
           ELSE call.prompts =
                   [i \in 1..3 |-> [kind |-> "literal",
                                    chars |-> Val(ExpectedPrompts[i].prompt),
                                    args |-> <<>>]]

\* C10 witness: a response with exactly two usable lines among four gave the
\* fallback triplet.
C10_Witness ==
    /\ call.op = "generateCardDesigns"
    /\ IsSome(call.content)
    /\ ~ContentFailed
    /\ Len(call.lines) = 4
    /\ Len(ExpectedPrompts) = 2
    /\ call.prompts = ExpectedFallback(call.input)


(***************************************************************************)
(* The gift-card service: calls of its operations and of the issue route,  *)
(* each suspended at its delays.  CatalogCalls are the calls one client    *)
(* makes; SharedCalls are the calls several clients make at the same time. *)
(***************************************************************************)
\* q: absent, empty, a category, upper case, one letter, a word of a description, no match,
\* part of a description, part of a category.
Queries ==
    {None,
     Some(<<>>),
     Some(<<"c", "o", "f", "f", "e", "e">>),
     Some(<<"C", "O", "F", "F", "E", "E">>),
     Some(<<"e">>),
     Some(<<"S", "h", "o", "p">>),
     Some(<<"z", "z", "z">>),
     Some(<<"m", "o", "r", "e", ".", " ", "p", "a", "y">>),
     Some(<<"t", "e", "c", "h">>)}
\* category: absent, empty, categories of the catalog, a part of one, an unknown one.
Categories ==
    {None,
     Some(<<>>),
     Some(<<"e", "l", "e", "c", "t", "r", "o", "n", "i", "c", "s">>),
     Some(<<"F", "o", "o", "d">>),
     Some(<<"r", "e", "t", "a", "i", "l">>),
     Some(<<"e", "l", "e", "c">>),
     Some(<<"p", "e", "t", "s">>)}

CatalogIds == {mockCatalog[i].id : i \in DOMAIN mockCatalog}
MerchantIds == CatalogIds \cup {"", "Amazon", "unknown"}

\* Amounts at and next to the ends of the merchant's interval, and inside it.
AmountsAround(merchant) ==
    {merchant.min_value - 1, merchant.min_value, merchant.min_value + 1,
     merchant.max_value - 1, merchant.max_value, merchant.max_value + 1}

InterestLists ==
    {<<<<"z", "z", "z">>>>,
     <<<<"c", "o", "f", "f", "e", "e">>>>,
     <<<<"M", "U", "S", "I", "C">>, <<"z", "z", "z">>>>,
     <<<<"s", "t", "a", "r", "b", "u", "c", "k", "s", " ", "c", "o", "f", "f", "e", "e">>>>,
     <<<<>>>>,
     <<>>,
     <<<<"e">>>>,
     <<<<"t", "e", "a", ",", " ", "a", "n", "d">>>>,
     <<<<"n", " ", "s">>>>}

Limits == {None, Some(-1), Some(0), Some(1), Some(3), Some(12), Some(13)}

IssueBodies ==
    {IssueBody(m, a, e) :
        m \in {None, Some(""), Some("starbucks"), Some("nike"), Some("unknown")},
        a \in {JMissing, JNum(0), JNum(-500), JStr("10"), JNum(1000), JNum(499),
               JNum(500), JNum(50000), JNum(50001), JNum(2500)},
        e \in {None, Some(""), Some("a@b.com")}}

ProductUrls == {"https://shop.example/p/red-mug?ref=1", "https://shop.example/"}

CatalogCalls ==
    {CatalogCall("getCatalog", NoArgs)}
    \cup {CatalogCall("searchGiftCards", [NoArgs EXCEPT !.query = q, !.category = c]) :
             q \in Queries, c \in Categories}
    \cup {CatalogCall("getMerchant", [NoArgs EXCEPT !.merchantId = id]) : id \in MerchantIds}
    \cup UNION {{CatalogCall("issueGiftCard",
                     [NoArgs EXCEPT !.merchantId = mockCatalog[i].id, !.amount = amount]) :
                     amount \in AmountsAround(mockCatalog[i])} : i \in DOMAIN mockCatalog}
    \cup {CatalogCall("issueGiftCard", [NoArgs EXCEPT !.merchantId = id, !.amount = 1000]) :
             id \in MerchantIds \ CatalogIds}
    \cup {CatalogCall("issueProductGiftCard",
                      [NoArgs EXCEPT !.merchantId = id, !.productUrl = url]) :
             id \in MerchantIds, url \in ProductUrls}
    \cup {CatalogCall("getBalance", [NoArgs EXCEPT !.giftCardId = "gc_1"])}
    \cup {CatalogCall("getWalletPass", [NoArgs EXCEPT !.giftCardId = "gc_1", !.platform = p]) :
             p \in {"apple", "google"}}
    \cup {CatalogCall("recommendGiftCards", [NoArgs EXCEPT !.interests = l, !.limit = n]) :
             l \in InterestLists, n \in Limits}
    \cup {CatalogCall("POST /issue", [NoArgs EXCEPT !.body = b]) : b \in IssueBodies}

\* One call of every operation, succeeding and failing.
SharedCalls ==
    {c \in CatalogCalls :
        /\ c.args.merchantId \in {"", "spotify", "unknown"}
        /\ c.args.amount \in {0, 999, 1000}
        /\ c.args.query \in {None, Some(<<"e">>)}
        /\ c.args.category \in {None, Some(<<"r", "e", "t", "a", "i", "l">>)}
        /\ c.args.interests \in {<<>>, << <<"z", "z", "z">> >>, << <<"c", "o", "f", "f", "e", "e">> >>}
        /\ c.args.limit \in {None, Some(1)}
        /\ c.args.productUrl \in {"", "https://shop.example/"}
        /\ c.args.platform \in {"", "apple"}
        /\ c.args.body \in {NoArgs.body, IssueBody(Some("nike"), JNum(2500), Some("a@b.com")),
                             IssueBody(Some("nike"), JNum(499), Some("a@b.com")),
                             IssueBody(Some("nike"), JNum(2500), None)}}

EstimatedPrices == {2000, 2499, 2500, 10000, 10001, 20000}
Balances == {0, 4250, 10000}

\* What the clock and the random generator can give the call.
Draws(c) ==
    CASE /\ c.op \in {"issueProductGiftCard", "giftCardService.issueProductGiftCard",
                     "POST /issue-product"}
         /\ c.pc = "delay" ->
            {Draw(7, price, 0, encodes) : price \in EstimatedPrices, encodes \in BOOLEAN}
      [] c.op \in {"getBalance", "giftCardService.getBalance", "GET /:giftCardId/balance"} ->
            {Draw(7, 0, balance, TRUE) : balance \in Balances}
      [] OTHER -> {Draw(7, 0, 0, TRUE)}

InitCatalog ==
    /\ req = NewRequest("thanks", None, 1)
    /\ ap = ApIdle
    /\ env = ConfiguredEnv
    /\ svc = NewService
    /\ call = IdleCall
    /\ gift = NewGiftCardService
    /\ sms = SmsIdle
    /\ reqs = <<>>
    /\ instance = ModuleLoaded

\* Client i calls an operation: it runs up to its first await.
CatalogCalled(i, calls) ==
    /\ gift.calls[i].pc = "idle"
    /\ \E c \in calls : gift' = [gift EXCEPT !.calls[i] = ServiceBegin(gift, c)]
    /\ UNCHANGED <<req, ap, env, svc, call, sms, reqs, instance>>

\* A delay of the call of client i ends: it runs up to its next await or to
\* its end.
DelayEnds(i) ==
    /\ gift.calls[i].pc \in {"delay", "issuing"}
    /\ \E draw \in Draws(gift.calls[i]) :
          LET after == ServiceResume(gift.calls[i], gift.mockCatalog, draw)
          IN gift' = [gift EXCEPT !.mockCatalog = after.mockCatalog,
                                  !.calls[i] = after.call]
    /\ UNCHANGED <<req, ap, env, svc, call, sms, reqs, instance>>

\* Client i has taken the result of its call.
CatalogCallOver(i) ==
    /\ gift.calls[i].pc = "done"
    /\ gift' = [gift EXCEPT !.calls[i] = IdleCatalogCall]
    /\ UNCHANGED <<req, ap, env, svc, call, sms, reqs, instance>>

NextCatalog == CatalogCalled(1, CatalogCalls) \/ DelayEnds(1) \/ CatalogCallOver(1)

SpecCatalog == InitCatalog /\ [][NextCatalog]_vars

NextShared ==
    \E i \in 1..MaxClients :
        CatalogCalled(i, SharedCalls) \/ DelayEnds(i) \/ CatalogCallOver(i)

SpecShared == InitCatalog /\ [][NextShared]_vars

(***************************************************************************)
(* Properties of the gift-card service (specifications SpecCatalog and     *)
(* SpecShared).                                                            *)
(***************************************************************************)
\* The finished calls of an operation.
Finished(op) ==
    {gift.calls[i] : i \in {j \in DOMAIN gift.calls :
                               gift.calls[j].pc = "done" /\ gift.calls[j].op = op}}

\* The record of the shipped catalog with this id.
Shipped(id) == mockCatalog[CHOOSE i \in DOMAIN mockCatalog : mockCatalog[i].id = id]

InInterval(id, amount) ==
    /\ id \in CatalogIds
    /\ Shipped(id).min_value <= amount
    /\ amount <= Shipped(id).max_value

\* C11: every merchant record has min_value <= max_value; issueGiftCard throws
\* the merchant-not-found error for an id that is not in the catalog and the
\* amount-out-of-range error for an amount below min_value or above max_value,
\* producing no card; an amount inside the interval, its two ends included, is
\* accepted and the card carries it unchanged.
C11_IssueRejectsBadRequests ==
    /\ \A k \in DOMAIN gift.mockCatalog :
          gift.mockCatalog[k].min_value <= gift.mockCatalog[k].max_value
    /\ \A c \in Finished("issueGiftCard") :
          LET r == Val(c.result)
              id == c.args.merchantId
          IN IF id \notin CatalogIds
             THEN /\ r.kind = "throws"
                  /\ r.err.message.kind = "Merchant not found"
                  /\ r.err.message.args = <<id>>
             ELSE IF ~InInterval(id, c.args.amount)
             THEN /\ r.kind = "throws"
                  /\ r.err.message.kind = "Amount must be between"
                  /\ r.err.message.args = <<Shipped(id).min_value, Shipped(id).max_value>>
             ELSE /\ r.kind = "returns"
                  /\ r.value.amount = c.args.amount

\* A card of exactly max_value has been issued.
C11_Witness ==
    \E c \in Finished("issueGiftCard") :
        /\ c.args.merchantId = "spotify"
        /\ c.args.amount = 10000
        /\ Val(c.result).kind = "returns"

CardAsRequested(card, id, amount) ==
    /\ card.amount = amount
    /\ card.merchant_id = id
    /\ card.merchant_name = Shipped(id).name
    /\ card.status = "active"

\* C12: an issuance with a catalog merchant id and an amount inside that
\* merchant's interval returns a card with the requested amount and merchant
\* id, that merchant's name and status active; POST /api/gift-cards/issue
\* with such a merchant_id and amount and a recipient_email answers 201 with
\* that card.
C12_IssueReturnsRequestedCard ==
    /\ \A c \in Finished("issueGiftCard") :
          InInterval(c.args.merchantId, c.args.amount) =>
              /\ Val(c.result).kind = "returns"
              /\ CardAsRequested(Val(c.result).value, c.args.merchantId, c.args.amount)
    /\ \A c \in Finished("POST /issue") :
          LET b == c.args.body
          IN (/\ IsSome(b.merchant_id)
              /\ b.amount.p = "number"
              /\ InInterval(Val(b.merchant_id), b.amount.n)
              /\ IsSome(b.recipient_email)
              /\ Val(b.recipient_email) # "") =>
                 /\ Val(c.result).status = 201
                 /\ Val(c.result).others = {"gift_card"}
                 /\ IsSome(Val(c.result).value)
                 /\ CardAsRequested(Val(Val(c.result).value), Val(b.merchant_id), b.amount.n)

\* The route has answered 201 for 5.00 at Starbucks, the least it accepts.
C12_Witness ==
    \E c \in Finished("POST /issue") :
        /\ c.args.body = IssueBody(Some("starbucks"), JNum(500), Some("a@b.com"))
        /\ Val(c.result).status = 201

Position(m) == CHOOSE i \in DOMAIN mockCatalog : mockCatalog[i] = m

\* A sub-list of the shipped catalog, in its order.
InCatalogOrder(list) ==
    /\ \A k \in DOMAIN list : \E i \in DOMAIN mockCatalog : mockCatalog[i] = list[k]
    /\ \A k \in 1..(Len(list) - 1) : Position(list[k]) < Position(list[k + 1])

ContainsQuery(m, query) ==
    \/ Includes(LowerCase(m.name), LowerCase(query))
    \/ Includes(LowerCase(m.description), LowerCase(query))
    \/ \E k \in DOMAIN m.categories : Includes(LowerCase(m.categories[k]), LowerCase(query))

\* C13: the result of a search is a sub-list of the catalog in catalog order;
\* with a query, every result contains it, case-insensitively, in its name,
\* its description or one of its categories; with a category, every result
\* has that category; with both, every result satisfies both; with neither,
\* the result is the whole catalog.
C13_SearchFilters ==
    \A c \in Finished("searchGiftCards") :
        LET results == Val(c.result).value
            query == c.args.query
            category == c.args.category
        IN /\ InCatalogOrder(results)
           /\ Given(query) =>
                 \A k \in DOMAIN results : ContainsQuery(results[k], Val(query))
           /\ Given(category) =>
                 \A k \in DOMAIN results :
                     \E j \in DOMAIN results[k].categories :
                         results[k].categories[j] = LowerCase(Val(category))
           /\ (~Given(query) /\ ~Given(category)) => results = mockCatalog

\* A search with a query and a category has found a merchant.
C13_Witness ==
    \E c \in Finished("searchGiftCards") :
        /\ c.args.query = Some(<<"e">>)
        /\ c.args.category = Some(<<"F", "o", "o", "d">>)
        /\ Len(Val(c.result).value) >= 2
        /\ Len(Val(c.result).value) < Len(mockCatalog)

\* The merchants of the shipped catalog an interest list matches.
Matching(interests) ==
    {i \in DOMAIN mockCatalog :
        \E k \in DOMAIN interests :
            Includes(merchantText(mockCatalog[i]), LowerCase(interests[k]))}

Least(a, b) == IF a < b THEN a ELSE b

\* C14: a recommendation for interests that match no merchant, with a limit
\* that is absent (3) or not negative, returns the first min(limit, 12)
\* entries of the catalog, in its order; it is not empty for a limit >= 1.
C14_FallbackToFirstEntries ==
    \A c \in Finished("recommendGiftCards") :
        LET limit == IF IsSome(c.args.limit) THEN Val(c.args.limit) ELSE 3
            merchants == Val(c.result).value
        IN (Matching(c.args.interests) = {} /\ limit >= 0) =>
              /\ Len(merchants) = Least(limit, Len(mockCatalog))
              /\ merchants = SubSeq(mockCatalog, 1, Least(limit, Len(mockCatalog)))
              /\ limit >= 1 => merchants # <<>>

\* Nothing matched and the limit was past the end of the catalog.
C14_Witness ==
    \E c \in Finished("recommendGiftCards") :
        /\ c.args.interests = << <<"z", "z", "z">> >>
        /\ c.args.limit = Some(13)
        /\ Len(Val(c.result).value) = 12

\* One of the interests is contained in the name, in the description or in
\* the categories of the merchant.
InAField(m, interests) ==
    \E k \in DOMAIN interests :
        \/ Includes(LowerCase(m.name), LowerCase(interests[k]))
        \/ Includes(LowerCase(m.description), LowerCase(interests[k]))
        \/ Includes(LowerCase(JoinWith(m.categories, <<" ">>)), LowerCase(interests[k]))

\* C15 as stated: a recommendation for interests that match a merchant returns
\* only merchants whose name, description or categories contain one of the
\* interests, and at most limit of them (3 without a limit), the limit being
\* a count.
C15_OnlyFieldMatches ==
    \A c \in Finished("recommendGiftCards") :
        LET limit == IF IsSome(c.args.limit) THEN Val(c.args.limit) ELSE 3
            merchants == Val(c.result).value
        IN Matching(c.args.interests) # {} =>
              /\ \A k \in DOMAIN merchants : InAField(merchants[k], c.args.interests)
              /\ limit >= 0 => Len(merchants) <= limit

\* C15: a recommendation for interests that match a merchant returns only
\* merchants whose text (name, description and categories joined by blanks,
\* in lower case) contains one of the interests in lower case, in catalog
\* order; at most limit of them (3 without a limit) when the limit is not
\* negative, and all but the last -limit of the matching ones when it is.
C15_OnlyTextMatches ==
    \A c \in Finished("recommendGiftCards") :
        LET limit == IF IsSome(c.args.limit) THEN Val(c.args.limit) ELSE 3
            merchants == Val(c.result).value
            matching == Matching(c.args.interests)
        IN matching # {} =>
              /\ InCatalogOrder(merchants)
              /\ \A k \in DOMAIN merchants : Position(merchants[k]) \in matching
              /\ limit >= 0 => Len(merchants) <= limit
              /\ limit < 0 =>
                    Len(merchants) = (IF Cardinality(matching) + limit < 0 THEN 0
                                      ELSE Cardinality(matching) + limit)

\* The interest runs from the name of Starbucks into its description, and
\* Starbucks alone was returned.
C15_Witness ==
    \E c \in Finished("recommendGiftCards") :
        /\ c.args.interests = << <<"s", "t", "a", "r", "b", "u", "c", "k", "s", " ",
                                   "c", "o", "f", "f", "e", "e">> >>
        /\ c.args.limit = None
        /\ Val(c.result).value = <<Shipped("starbucks")>>

\* C20: whatever calls have been made, are in progress or have failed, the
\* catalog holds the 12 merchant records it was loaded with, in their order.
C20_CatalogNeverMutated ==
    /\ Len(gift.mockCatalog) = 12
    /\ gift.mockCatalog = mockCatalog

\* A recommendation has fallen back to the head of the catalog while an
\* issuance of another client was failing.
C20_Witness ==
    \E i, j \in DOMAIN gift.calls :
        /\ gift.calls[i].op = "recommendGiftCards"
        /\ gift.calls[i].pc = "done"
        /\ gift.calls[i].args.interests = << <<"z", "z", "z">> >>
        /\ Len(Val(gift.calls[i].result).value) >= 1
        /\ gift.calls[j].op = "issueGiftCard"
        /\ gift.calls[j].pc = "done"
        /\ Val(gift.calls[j].result).kind = "throws"

(***************************************************************************)
(* The SMS service: constructed from the environment, then one operation   *)
(* at a time; in the real mode every client.messages.create call settles   *)
(* on its own.                                                             *)
(***************************************************************************)
MaxViewers == 2

Phones ==
    {<<"5", "5", "5", "1", "2", "3", "4", "5", "6", "7">>,
     <<"1", "5", "5", "5", "1", "2", "3", "4", "5", "6", "7">>,
     <<"1", "2", "3", "4", "5", "6", "7", "8", "9", "0">>,
     <<"2", "5", "5", "5", "1", "2", "3", "4", "5", "6", "7">>,
     <<"5", "5", "5", "-", "1", "2", "3", "-", "4", "5", "6", "7">>,
     <<"(", "5", "5", "5", ")", " ", "1", "2", "3", "-", "4", "5", "6", "7">>,
     <<"1", "-", "5", "5", "5", "-", "1", "2", "3", "-", "4", "5", "6", "7">>,
     <<"+", "1", "5", "5", "5", "1", "2", "3", "4", "5", "6", "7">>,
     <<"+", "1", "1", "2", "3", "4", "5", "6", "7", "8", "9", "0">>,
     <<"+", "1", " ", "(", "5", "5", "5", ")", " ", "1", "2", "3", "-", "4", "5", "6", "7">>,
     <<"+", "4", "7", "1", "2", "3", "4", "5", "6", "7", "8">>,
     <<"+", "4", "4", "2", "0", "7", "1", "2", "3", "4", "5", "6", "7">>,
     <<"+", "4", "4", " ", "2", "0", " ", "7", "1", "2", "3", " ", "4", "5", "6", "7">>,
     <<>>,
     <<"+">>,
     <<"a", "b", "c">>,
     <<"5", "5", "5", "1", "2", "3", "4", "5", "6">>,
     <<"+", "5", "5", "5", "1", "2", "3", "4", "5", "6">>,
     <<"0", "0", "1", "5", "5", "5", "1", "2", "3", "4", "5", "6", "7">>,
     <<"1", "2", "3", "4", "5", "6", "7", "8", "9", "0", "1", "2", "3", "4", "5", "6">>,
     <<"+", "1", "2", "3", "4", "5", "6", "7", "8", "9", "0", "1", "2", "3", "4", "5", "6">>,
     <<"+", "1", "5", "5", "5", "1", "2", "3", "4", "5", "6", "a">>,
     <<" ", "5", "5", "5", "1", "2", "3", "4", "5", "6", "7">>}

\* The numbers messages are sent to: a bare US number, an international
\* number, and no number at all.
Recipients ==
    {<<"5", "5", "5", "1", "2", "3", "4", "5", "6", "7">>,
     <<"+", "4", "7", "1", "2", "3", "4", "5", "6", "7", "8">>,
     <<"a", "b", "c">>}

AccountSids ==
    {None,
     Some(<<>>),
     Some(<<"A", "C", "t", "e", "s", "t", "1", "2", "3">>),
     Some(<<"A", "C", "1", "2", "3">>),
     Some(<<"A", "C", "t", "e", "s">>),
     Some(<<"X", "A", "C", "t", "e", "s", "t">>)}

SmsEnvs ==
    {SmsEnv(sid, token, number) :
        sid \in AccountSids, token \in {None, Some(""), Some("token")},
        number \in {None, Some("+15550001111")}}

PhoneLists == UNION {[1..n -> Recipients] : n \in 0..MaxViewers}

Senders == {None, Some(""), Some("Ann")}

SmsCalls ==
    {[IdleSmsCall EXCEPT !.op = "isValidPhoneNumber", !.phone = p] : p \in Phones}
    \cup {[IdleSmsCall EXCEPT !.op = op, !.phone = p] :
             op \in {"sendSMS", "sendViewerInvitation", "sendViewerMessage",
                     "sendVerificationCode"},
             p \in Phones}
    \cup {[IdleSmsCall EXCEPT !.op = "sendGiftLink", !.phone = p, !.sender = n] :
             p \in Recipients, n \in Senders}
    \cup {[IdleSmsCall EXCEPT !.op = "sendGroupGiftNotification", !.phone = p,
                              !.sender = n, !.viewers = v] :
             p \in Recipients, n \in {None, Some("Ann")}, v \in PhoneLists}
    \cup {[IdleSmsCall EXCEPT !.op = "sendBatch",
                              !.messages = [k \in DOMAIN v |->
                                               [to |-> v[k], body |-> Template("body", <<k>>)]]] :
             v \in PhoneLists}

\* The messages the provider can answer a request with: the request as it
\* was made, or as the provider rewrote it.
ProviderMessages(request) ==
    {[sid |-> "SM1", status |-> "queued", to |-> request.to, from |-> request.from,
      body |-> request.body],
     [sid |-> "SM2", status |-> "accepted", to |-> <<"+", "1">>, from |-> "MG-pool",
      body |-> Template("truncated", <<>>)]}

InitSms ==
    /\ req = NewRequest("thanks", None, 1)
    /\ ap = ApIdle
    /\ env = ConfiguredEnv
    /\ svc = NewService
    /\ call = IdleCall
    /\ gift = NewGiftCardService
    /\ sms \in {NewSMSService(e) : e \in SmsEnvs}
    /\ reqs = <<>>
    /\ instance = ModuleLoaded

SmsCalled ==
    /\ sms.call.pc = "idle"
    /\ \E c \in SmsCalls : sms' = SmsBegin(sms, c)
    /\ UNCHANGED <<req, ap, env, svc, call, gift, reqs, instance>>

\* client.messages.create settles for one of the pending sends.
ProviderSettles ==
    /\ \E k \in DOMAIN sms.call.sends :
          /\ sms.call.sends[k].state = "pending"
          /\ \/ \E m \in ProviderMessages(sms.created[k]) :
                   sms' = SmsSettle(sms, k, Returns(m))
             \/ \E e \in {ErrorObject("upstream failure"), ThrownString} :
                   sms' = SmsSettle(sms, k, Throws(e))
    /\ UNCHANGED <<req, ap, env, svc, call, gift, reqs, instance>>

\* The caller has taken the result of the operation.
SmsCallOver ==
    /\ sms.call.pc \in {"returned", "rejected"}
    /\ sms' = [sms EXCEPT !.call = IdleSmsCall, !.created = <<>>]
    /\ UNCHANGED <<req, ap, env, svc, call, gift, reqs, instance>>

\* The environment of the process changes after the service was constructed.
EnvironmentChanges ==
    /\ sms.call.pc = "idle"
    /\ sms.environment = sms.builtWith
    /\ sms' = [sms EXCEPT !.environment =
                  IF IsSome(sms.builtWith.TWILIO_ACCOUNT_SID)
                  THEN SmsEnv(None, None, None)
                  ELSE SmsEnv(Some(<<"A", "C", "1", "2", "3">>), Some("token"),
                              Some("+15550001111"))]
    /\ UNCHANGED <<req, ap, env, svc, call, gift, reqs, instance>>

NextSms == SmsCalled \/ ProviderSettles \/ SmsCallOver \/ EnvironmentChanges

SpecSms == InitSms /\ [][NextSms]_vars

(***************************************************************************)
(* Properties of the SMS service (specification SpecSms).                  *)
(***************************************************************************)
AllDigits(phone) == \A i \in DOMAIN phone : phone[i] \in Digits

\* C16: a bare 10-digit number d is formatted as +1 followed by d, and an
\* 11-digit number that begins with 1 as + followed by its digits, so that
\* 5551234567 and 15551234567 both give +15551234567; isValidPhoneNumber
\* answers true for every bare 10-digit number and for its formatted form.
C16_UsNumbersNormalized ==
    /\ \A k \in DOMAIN sms.call.sends :
          LET to == sms.call.sends[k].to
              formattedTo == sms.call.sends[k].formattedTo
          IN /\ (AllDigits(to) /\ Len(to) = 10) => formattedTo = <<"+", "1">> \o to
             /\ (AllDigits(to) /\ Len(to) = 11 /\ to[1] = "1") => formattedTo = <<"+">> \o to
             /\ to \in {<<"5", "5", "5", "1", "2", "3", "4", "5", "6", "7">>,
                        <<"1", "5", "5", "5", "1", "2", "3", "4", "5", "6", "7">>} =>
                   formattedTo = <<"+", "1", "5", "5", "5", "1", "2", "3", "4", "5", "6", "7">>
    /\ (sms.call.op = "isValidPhoneNumber" /\ sms.call.pc = "returned") =>
          LET phone == sms.call.phone
          IN /\ (AllDigits(phone) /\ Len(phone) = 10) => sms.call.valid = Some(TRUE)
             /\ (/\ Len(phone) = 12
                 /\ SubSeq(phone, 1, 2) = <<"+", "1">>
                 /\ AllDigits(SubSeq(phone, 3, 12))) => sms.call.valid = Some(TRUE)

\* A message has been sent to the bare number 5551234567.
C16_Witness ==
    /\ sms.call.op = "sendSMS"
    /\ Len(sms.call.sends) = 1
    /\ sms.call.sends[1].to = <<"5", "5", "5", "1", "2", "3", "4", "5", "6", "7">>
    /\ sms.call.sends[1].formattedTo = <<"+", "1", "5", "5", "5", "1", "2", "3", "4", "5", "6", "7">>

\* C17: a number that starts with + is formatted as itself.
C17_PlusPassesThrough ==
    \A k \in DOMAIN sms.call.sends :
        StartsWith(sms.call.sends[k].to, <<"+">>) =>
            sms.call.sends[k].formattedTo = sms.call.sends[k].to

\* The sendSMS calls the operation in progress has to make, as far as it got.
ExpectedSends(c) ==
    CASE c.op \in {"none", "isValidPhoneNumber"} -> 0
      [] c.op = "sendBatch" -> Len(c.messages)
      [] c.op = "sendGroupGiftNotification" ->
            IF c.sends[1].state = "fulfilled" THEN 1 + Len(c.viewers) ELSE 1
      [] OTHER -> 1

\* C18: the service is in mock mode exactly when the account SID or the auth
\* token was absent or empty, or the SID began with ACtest, at construction,
\* whatever the environment became later.  In mock mode no request is ever
\* handed to the provider and every send of every operation is fulfilled
\* with a receipt with a mock sid, status delivered, the formatted number and
\* the sender number.  Otherwise every send hands exactly one request to the
\* provider, with the formatted number, and a fulfilled send returns the
\* sid, status, to, from and body of the provider's message.
C18_SingleSwitch ==
    LET sid == sms.builtWith.TWILIO_ACCOUNT_SID
        token == sms.builtWith.TWILIO_AUTH_TOKEN
        mock == \/ ~IsSome(sid) \/ Val(sid) = <<>>
                \/ ~IsSome(token) \/ Val(token) = ""
                \/ /\ Len(Val(sid)) >= 6
                   /\ SubSeq(Val(sid), 1, 6) = <<"A", "C", "t", "e", "s", "t">>
        sends == sms.call.sends
    IN /\ sms.useMock = mock
       /\ Len(sends) = ExpectedSends(sms.call)
       /\ mock =>
             /\ sms.created = <<>>
             /\ \A k \in DOMAIN sends :
                   /\ sends[k].state = "fulfilled"
                   /\ Val(sends[k].receipt) =
                         [sid |-> "mock_sms", status |-> "delivered",
                          to |-> formatPhoneNumber(sends[k].to),
                          from |-> sms.fromNumber, body |-> sends[k].body]
       /\ ~mock =>
             /\ Len(sms.created) = Len(sends)
             /\ \A k \in DOMAIN sends :
                   /\ sms.created[k] = [body |-> sends[k].body, from |-> sms.fromNumber,
                                        to |-> formatPhoneNumber(sends[k].to)]
                   /\ sends[k].state = "fulfilled" =>
                         Val(sends[k].receipt) \in ProviderMessages(sms.created[k])

\* With real credentials a group notification to two viewers has returned
\* three receipts, one of them rewritten by the provider.
C18_Witness ==
    /\ ~sms.useMock
    /\ sms.call.op = "sendGroupGiftNotification"
    /\ sms.call.pc = "returned"
    /\ Len(sms.call.receipts) = 3
    /\ Len(sms.created) = 3
    /\ \E k \in 1..3 : sms.call.receipts[k].sid = "SM2"

(***************************************************************************)
(* Concurrent generateCard calls on one OrchestrationAgent.  Each call has *)
(* its own `state` object (a local constant of the call); the calls are    *)
(* resumed in any order, each with the outcome of the await it is          *)
(* suspended at.  inputs and outcomes record, for the properties, what the *)
(* call was made with and what its awaits settled with.                    *)
(***************************************************************************)
MaxRequests == 2

\* What the await the request is suspended at can settle with: the result
\* of the shipped stub, a result that reports a failure, or a thrown error.
Outcomes(r) ==
    LET failure == Throws(ErrorObject("upstream failure"))
    IN CASE r.pc = "start" -> {ModelObtained, failure}
         [] r.pc = "analyzing" ->
               {ContentThrows(ErrorObject("upstream failure")),
                ContentText(<<FenceJson, NL, Payload(JsonObject(SampleFields)), NL, Fence>>)}
         [] r.pc = "illustrating" ->
               LET stub == generateDesign(IllustrationRequest(r.state.prompt,
                                                              Val(r.state.analysis)))
               IN {Returns(stub), Returns([stub EXCEPT !.success = FALSE]), failure}
         [] r.pc = "editing" ->
               {Returns([success |-> TRUE,
                         layerTree |-> Some(Mark(Val(r.state.layerTree), "edited"))]),
                Returns([success |-> FALSE, layerTree |-> None])}
         [] r.pc = "animating" ->
               {Returns(Mark(Val(r.state.layerTree), "animated")), failure}
         [] r.pc = "shopping" ->
               {Returns([giftCards |-> <<"starbucks">>, suggestedFriends |-> <<"ann">>]),
                Throws(ThrownNull)}
         [] OTHER -> {}

\* The request runs from the await it is suspended at to its next await or
\* to its end.
ResumeRequest(r, outcome) ==
    CASE r.pc = "start" -> BeginAnalysis(r, outcome)
      [] r.pc = "analyzing" -> AfterAnalysis(r, outcome)
      [] r.pc = "illustrating" -> AfterIllustration(r, outcome)
      [] r.pc = "editing" -> AfterEditing(r, outcome)
      [] r.pc = "animating" -> AfterAnimation(r, outcome)
      [] r.pc = "shopping" -> AfterShopping(r, outcome)
      [] OTHER -> r

\* A variant in which the calls keep their state in a field of the agent.
StoreRequestShared(rs, i, r1, outcome) ==
    [j \in DOMAIN rs |->
        IF j = i THEN [rs[j] EXCEPT !.r = r1, !.outcomes = Append(@, outcome)]
        ELSE [rs[j] EXCEPT !.r.state = r1.state]]

\* Lines 88-94: `const state` belongs to the call; the step of call i
\* changes the state of call i only.
StoreRequest(rs, i, r1, outcome) ==
    [rs EXCEPT ![i].r = r1, ![i].outcomes = Append(@, outcome)]

ConcurrentRequest(prompt, userId, now) ==
    [r |-> NewRequest(prompt, userId, now),
     inputs |-> [prompt |-> prompt, userId |-> userId, now |-> now],
     outcomes |-> <<>>]

InitConcurrent ==
    /\ req = NewRequest("thanks", None, 1)
    /\ ap = ApIdle
    /\ env = ConfiguredEnv
    /\ svc = NewService
    /\ call = IdleCall
    /\ gift = NewGiftCardService
    /\ sms = SmsIdle
    /\ instance = ModuleLoaded
    /\ reqs \in [1..MaxRequests ->
                   {ConcurrentRequest(p, u, 1) : p \in Prompts, u \in {None, Some("u1")}}]
    /\ \A i \in 1..(MaxRequests - 1) :
          reqs[i].inputs.prompt # reqs[i + 1].inputs.prompt

\* One of the calls is resumed.
RequestResumes(i) ==
    /\ \E outcome \in Outcomes(reqs[i].r) :
          reqs' = StoreRequest(reqs, i, ResumeRequest(reqs[i].r, outcome), outcome)
    /\ UNCHANGED <<req, ap, env, svc, call, gift, sms, instance>>

NextConcurrent == \E i \in 1..MaxRequests : RequestResumes(i)

SpecConcurrent == InitConcurrent /\ [][NextConcurrent]_vars

RECURSIVE Replay(_, _)
\* The request run alone: resumed with these outcomes, one after the other.
Replay(r, outcomes) ==
    IF outcomes = <<>> THEN r
    ELSE Replay(ResumeRequest(r, Head(outcomes)), Tail(outcomes))

NeoEnvs ==
    {NeoEnv(sandbox, key) :
        sandbox \in {None, Some("true"), Some("false"), Some("TRUE")},
        key \in {None, Some(""), Some("nc_live_1")}}

ProductBodies ==
    {ProductBody(m, u, e) :
        m \in {None, Some(""), Some("unknown")} \cup {Some(id) : id \in CatalogIds},
        u \in {None, Some("")} \cup {Some(url) : url \in ProductUrls},
        e \in {None, Some(""), Some("a@b.com")}}

RecommendBodies ==
    {RecommendBody(i, n) :
        i \in {JMissing, JNull, JStr("coffee"), JArr(<<>>),
               JArr(<< <<"c", "o", "f", "f", "e", "e">> >>), JArr(<< <<"z", "z", "z">> >>)},
        n \in {None, Some(1)}}

RouteCalls ==
    {CatalogCall("GET /catalog", NoArgs)}
    \cup {CatalogCall("GET /search", [NoArgs EXCEPT !.query = q, !.category = c]) :
             q \in {None, Some(<<"c", "o", "f", "f", "e", "e">>)},
             c \in {None, Some(<<"r", "e", "t", "a", "i", "l">>)}}
    \cup {CatalogCall("GET /merchants/:merchantId", [NoArgs EXCEPT !.merchantId = id]) :
             id \in MerchantIds \ {""}}
    \cup {CatalogCall("POST /issue", [NoArgs EXCEPT !.body = b]) : b \in IssueBodies}
    \cup {CatalogCall("POST /issue-product", [NoArgs EXCEPT !.body = b]) :
             b \in ProductBodies}
    \cup {CatalogCall("GET /:giftCardId/balance", [NoArgs EXCEPT !.giftCardId = "gc_1"])}
    \cup {CatalogCall("GET /:giftCardId/wallet-pass",
                      [NoArgs EXCEPT !.giftCardId = "gc_1", !.platform = p]) :
             p \in {"", "apple", "google", "windows"}}
    \cup {CatalogCall("POST /recommend", [NoArgs EXCEPT !.body = b]) : b \in RecommendBodies}
    \cup {CatalogCall("unmatched route", [NoArgs EXCEPT !.path = p]) :
             p \in {"GET /api/gift-cards", "POST /api/cards/nowhere"}}

\* One call of each operation of the wrapper, with arguments the mock
\* service accepts.
WrapperCalls ==
    {CatalogCall(op, [NoArgs EXCEPT !.merchantId = "spotify", !.amount = 1000,
                                    !.productUrl = "https://shop.example/",
                                    !.giftCardId = "gc_1", !.platform = "apple",
                                    !.interests = << <<"c", "o", "f", "f", "e", "e">> >>]) :
        op \in WrapperOps}

InitRoutes ==
    /\ req = NewRequest("thanks", None, 1)
    /\ ap = ApIdle
    /\ env = ConfiguredEnv
    /\ svc = NewService
    /\ call = IdleCall
    /\ \E e \in NeoEnvs :
          gift = [NewGiftCardService EXCEPT !.useMock = GiftCardService(e).useMock,
                                            !.builtWith = e,
                                            !.environment = e]
    /\ sms = SmsIdle
    /\ reqs = <<>>
    /\ instance = ModuleLoaded

\* The environment of the process changes after the services were
\* constructed.
NeoEnvironmentChanges ==
    /\ gift.calls[1].pc = "idle"
    /\ \E e \in NeoEnvs \ {gift.environment} : gift' = [gift EXCEPT !.environment = e]
    /\ UNCHANGED <<req, ap, env, svc, call, sms, reqs, instance>>

NextRoutes ==
    \/ CatalogCalled(1, RouteCalls \cup WrapperCalls)
    \/ DelayEnds(1)
    \/ CatalogCallOver(1)
    \/ NeoEnvironmentChanges

SpecRoutes == InitRoutes /\ [][NextRoutes]_vars

(***************************************************************************)
(* Properties of the routes and of the wrapper (specification SpecRoutes). *)
(***************************************************************************)
\* The body of a POST /issue request has the three required members, the
\* amount being a positive number.
IssueBodyValid(b) ==
    /\ IsSome(b.merchant_id) /\ Val(b.merchant_id) # ""
    /\ b.amount.p = "number" /\ b.amount.n > 0
    /\ IsSome(b.recipient_email) /\ Val(b.recipient_email) # ""

\* C21: with the mock catalog in use, POST /api/gift-cards/issue answers 400
\* when a required field is missing or invalid, 404 when merchant_id names no
\* catalog merchant, 400 when the amount is outside the merchant's interval,
\* and never 500 for such a request; GET /api/gift-cards/merchants/:id
\* answers 404 for an unknown id.
C21_CallerErrorsAre4xx ==
    gift.useMock =>
        /\ \A c \in Finished("POST /issue") :
              LET b == c.args.body
                  status == Val(c.result).status
              IN IF ~IssueBodyValid(b) THEN status = 400
                 ELSE IF Val(b.merchant_id) \notin CatalogIds THEN status = 404
                 ELSE IF ~InInterval(Val(b.merchant_id), b.amount.n) THEN status = 400
                 ELSE status = 201
        /\ \A c \in Finished("GET /merchants/:merchantId") :
              c.args.merchantId \notin CatalogIds => Val(c.result).status = 404


\* The requests that have been answered.
Answered ==
    UNION {Finished(op) : op \in RouteOps \cup {"unmatched route"}}

\* C22: every response with a status outside 2xx (400 of a validation, 404
\* of an unknown merchant, 404 of an unmatched route, 500 of a failed
\* handler) carries an error member and a message member, and the 404 of an
\* unmatched route carries availableRoutes as well.
C22_ErrorShape ==
    \A c \in Answered :
        LET r == Val(c.result)
        IN r.status >= 300 =>
              /\ IsSome(r.error)
              /\ IsSome(r.message)
              /\ (c.op = "unmatched route" => "availableRoutes" \in r.others)


\* The body of a POST /issue-product request names a catalog merchant and
\* has a product_url and a recipient_email.
ProductBodyComplete(b) ==
    /\ IsSome(b.merchant_id) /\ Val(b.merchant_id) \in CatalogIds
    /\ IsSome(b.product_url) /\ Val(b.product_url) # ""
    /\ IsSome(b.recipient_email) /\ Val(b.recipient_email) # ""

\* C23: with the mock catalog in use, a POST /api/gift-cards/issue-product
\* request with a catalog merchant, a product_url (whose product name can be
\* encoded) and a recipient_email is answered 201 with a product gift card
\* whose amount lies within the merchant's interval, whatever price was
\* estimated for the product.
C23_ProductCardAlwaysIssued ==
    gift.useMock =>
        \A c \in Finished("POST /issue-product") :
            (ProductBodyComplete(c.args.body) /\ c.draw.encodes) =>
                /\ Val(c.result).status = 201
                /\ IsSome(Val(c.result).value)
                /\ InInterval(Val(c.args.body.merchant_id),
                              Val(Val(c.result).value).card.amount)


(***************************************************************************)
(* The searches of the README against the shipped catalog (specification   *)
(* SpecCatalog).                                                           *)
(***************************************************************************)
Ids(merchants) == [k \in DOMAIN merchants |-> merchants[k].id]

Coffee == <<"c", "o", "f", "f", "e", "e">>
Electronics == <<"e", "l", "e", "c", "t", "r", "o", "n", "i", "c", "s">>

WrapperFinished == UNION {Finished(op) : op \in WrapperOps}

\* C25: the wrapper uses the mock service exactly when NEOCURRENCY_SANDBOX
\* was 'true' or NEOCURRENCY_API_KEY was not set when it was constructed,
\* whatever the environment has become since; and when it does not use the
\* mock service every operation of the wrapper returns a value, so that no
\* route answers 500.
C25_BothModesServe ==
    /\ gift.useMock <=> (\/ gift.builtWith.NEOCURRENCY_SANDBOX = Some("true")
                         \/ ~IsSome(gift.builtWith.NEOCURRENCY_API_KEY)
                         \/ Val(gift.builtWith.NEOCURRENCY_API_KEY) = "")
    /\ ~gift.useMock =>
          /\ \A c \in WrapperFinished : Val(c.result).kind = "returns"
          /\ \A c \in Answered : c.op \in RouteOps => Val(c.result).status # 500


(***************************************************************************)
(* Order of the steps of one generateCard run (specification Spec).        *)
(***************************************************************************)
StepRank(s) ==
    CASE s = "start" -> 1
      [] s = "analyzing" -> 2
      [] s = "illustrating" -> 3
      [] s = "editing" -> 4
      [] s = "animating" -> 5
      [] s = "shopping" -> 6
      [] s = "complete" -> 7
      [] s = "failed" -> 8

\* The positions of the trace at which currentStep was assigned.
StepPositions == {i \in DOMAIN req.trace : req.trace[i].k = "step"}

\* The first invocation of the agent, when there is one.
FirstCall(agent) == CHOOSE i \in Calls(agent) : \A j \in Calls(agent) : i <= j

ReturnedStateConsistent ==
    Returned =>
        /\ req.state.currentStep \in {"complete", "failed"}
        /\ req.state.errors # <<>> <=> req.state.currentStep = "failed"
        /\ req.state.currentStep = "failed" =>
              /\ Len(req.state.errors) = 1
              /\ IsSome(req.got.caught)
              /\ Val(req.got.caught).kind = "Error" =>
                    req.state.errors[1] = Some(Val(req.got.caught).message)
        /\ req.state.currentStep = "complete" =>
              /\ IsSome(req.state.analysis)
              /\ IsSome(req.state.layerTree)

C28_FormatIdempotent ==
    /\ \A k \in DOMAIN sms.call.sends :
          formatPhoneNumber(sms.call.sends[k].formattedTo) = sms.call.sends[k].formattedTo
    /\ (sms.call.op = "isValidPhoneNumber" /\ sms.call.pc = "returned") =>
          LET formatted == formatPhoneNumber(sms.call.phone)
          IN /\ formatPhoneNumber(formatted) = formatted
             /\ sms.call.valid = Some(isValidPhoneNumber(formatted))

\* isValidPhoneNumber has answered for a number with punctuation, which is
\* not its own formatted form.
C28_Witness ==
    /\ sms.call.op = "isValidPhoneNumber"
    /\ sms.call.pc = "returned"
    /\ sms.call.phone = <<"+", "1", " ", "(", "5", "5", "5", ")", " ", "1", "2", "3", "-",
                          "4", "5", "6", "7">>
    /\ formatPhoneNumber(sms.call.phone) # sms.call.phone
    /\ sms.call.valid = Some(TRUE)


\* The call of sendGroupGiftNotification in progress, if there is one.
GroupCall == sms.call.op = "sendGroupGiftNotification" /\ sms.call.pc # "idle"

\* C29: sendGroupGiftNotification sends the recipient's message first; the
\* viewer messages are started only once that send is fulfilled, all of them
\* together and in the order of viewerPhones, so that none is sent when the
\* recipient send fails; the call returns when every send is fulfilled, with
\* the recipient's receipt and one receipt per viewer phone in the order of
\* the input, whatever the order in which the sends were fulfilled; and when
\* a send fails the call rejects with the error of that send, while the
\* messages already handed over stay sent and no further message is sent.
C29_GroupNotificationOrder ==
    GroupCall =>
        LET c == sms.call
            sends == c.sends
        IN /\ Len(sends) >= 1
           /\ sends[1].to = c.phone
           /\ Len(sends) > 1 =>
                 /\ sends[1].state = "fulfilled"
                 /\ Len(sends) = 1 + Len(c.viewers)
                 /\ \A k \in DOMAIN c.viewers :
                       /\ sends[k + 1].to = c.viewers[k]
                       /\ sends[k + 1].body = ViewerMessage
           /\ sends[1].state # "fulfilled" => Len(sends) = 1
           /\ ~sms.useMock => Len(sms.created) = Len(sends)
           /\ c.pc = "returned" =>
                 /\ \A k \in DOMAIN sends : sends[k].state = "fulfilled"
                 /\ Len(c.receipts) = 1 + Len(c.viewers)
                 /\ \A k \in DOMAIN c.receipts :
                       /\ c.receipts[k] = Val(sends[k].receipt)
                       /\ c.receipts[k].sid \in {"SM1", "mock_sms"} =>
                             c.receipts[k].to =
                                 formatPhoneNumber(IF k = 1 THEN c.phone
                                                   ELSE c.viewers[k - 1])
           /\ (\E k \in DOMAIN sends : sends[k].state = "rejected") =>
                 /\ c.pc = "rejected"
                 /\ c.receipts = <<>>
                 /\ \E k \in DOMAIN sends : sends[k].error = c.thrown /\ IsSome(c.thrown)
           /\ c.pc = "rejected" => \E k \in DOMAIN sends : sends[k].state = "rejected"

\* The call has rejected because the first viewer's send failed, after the
\* recipient and the second viewer had been messaged.
C29_Witness ==
    /\ GroupCall
    /\ sms.call.pc = "rejected"
    /\ Len(sms.call.sends) = 3
    /\ sms.call.sends[1].state = "fulfilled"
    /\ sms.call.sends[2].state = "rejected"
    /\ sms.call.sends[3].state = "fulfilled"


(***************************************************************************)
(* GoogleAIService while the environment of the process changes and the    *)
(* module is asked for its instance again.                                 *)
(***************************************************************************)
MaxGets == 2

GoogleEnvs ==
    {[GOOGLE_AI_API_KEY |-> key, GOOGLE_TEXT_MODEL |-> model, GOOGLE_IMAGE_MODEL |-> None] :
        key \in {None, Some("key")},
        model \in {None, Some("gemini-x")}}

InitLatch ==
    /\ req = NewRequest("thanks", None, 1)
    /\ ap = ApIdle
    /\ env \in GoogleEnvs
    /\ svc = NewService
    /\ call = IdleCall
    /\ gift = NewGiftCardService
    /\ sms = SmsIdle
    /\ reqs = <<>>
    /\ instance = ModuleLoaded

\* getGoogleAIService() is called again.
GoogleAIServiceRequested ==
    /\ call.pc = "idle"
    /\ Len(instance.returned) < MaxGets
    /\ instance' = getGoogleAIService(instance)
    /\ UNCHANGED <<req, ap, env, svc, call, gift, sms, reqs>>

\* The environment of the process changes between two operations, after the
\* first of them.
GoogleEnvironmentChanges ==
    /\ call.pc = "idle"
    /\ svc.initialized
    /\ \E e \in GoogleEnvs \ {env} : env' = e
    /\ UNCHANGED <<req, ap, svc, call, gift, sms, reqs, instance>>

NextLatch ==
    \/ OperationCalled
    \/ ContentSettles
    \/ OperationOver
    \/ GoogleAIServiceRequested
    \/ GoogleEnvironmentChanges

SpecLatch == InitLatch /\ [][NextLatch]_vars

\* The key is set: process.env.GOOGLE_AI_API_KEY is truthy.
KeySet(environment) ==
    IsSome(environment.GOOGLE_AI_API_KEY) /\ Val(environment.GOOGLE_AI_API_KEY) # ""

\* One object serves every caller; no operation has run on a service that is
\* not initialized; and on a service initialized without a key every
\* operation has thrown the not-initialized error, testConnection having
\* returned false.
LatchedState ==
    /\ instance.made = 1
    /\ \A k \in DOMAIN instance.returned : instance.returned[k] = 1
    /\ ~svc.initialized => call.pc = "idle"
    /\ (svc.initialized /\ ~svc.genAI /\ call.pc # "idle") =>
          IF call.op = "testConnection"
          THEN call.pc = "returned" /\ call.value.connected = Some(FALSE)
          ELSE call.pc = "threw" /\ call.thrown = Some(NotInitializedError)

\* The step that initializes the service reads the environment, and no
\* later step changes what it has read.
LatchStep ==
    /\ svc.initialized => svc' = svc
    /\ (~svc.initialized /\ svc'.initialized) =>
          /\ svc'.genAI = KeySet(env)
          /\ svc'.genAI =>
                /\ svc'.textModel = IF IsSome(env.GOOGLE_TEXT_MODEL)
                                    THEN Val(env.GOOGLE_TEXT_MODEL)
                                    ELSE "gemini-2.5-flash"
                /\ svc'.imageModel = "imagen-3"

\* C30: the service is initialized by its first operation, with the API key
\* and the model names the environment has then, and never again: later
\* operations leave what was read unchanged; when the key was absent at that
\* first use every later generateCardDesigns, generateMessage,
\* refineCardDesign and checkGrammar throws the not-initialized error and
\* testConnection returns false, even once the key is set; and
\* getGoogleAIService returns the same object at every call.
C30_InitializedOnce == []LatchedState /\ [][LatchStep]_vars

\* The key has been set after the first use, and generateMessage has still
\* thrown the not-initialized error.
C30_Witness ==
    /\ svc.initialized
    /\ ~svc.genAI
    /\ KeySet(env)
    /\ call.op = "generateMessage"
    /\ call.pc = "threw"
    /\ call.thrown = Some(NotInitializedError)
    /\ Len(instance.returned) = MaxGets

====
